---- MODULE Spec2Model ----
(***************************************************************************)
(* Model of src/mklink_tool.py: migrate_and_link_directory and the helpers *)
(* it calls, over an explicit model of a filesystem with directories,      *)
(* regular files, symbolic links and special files.                        *)
(*                                                                         *)
(* A path is a sequence of names below the root <<>>.  The filesystem fs   *)
(* is a function from the paths of the existing entries to their nodes;    *)
(* the root always exists and is a directory.                              *)
(***************************************************************************)
EXTENDS Integers, Sequences, FiniteSets, Bags, TLC

\* ------------------------------------------------------------------ bounds
\* number of invocations of a script (of migrate_and_link_directory, of the
\* updater) in one behaviour
MaxRuns == 2
\* number of symbolic links the kernel follows in one lookup before ELOOP
SymlinkFuel == 4
\* number of nested shutil.copytree calls before the interpreter raises
\* RecursionError
RecursionLimit == 4

\* ------------------------------------------------------------------- nodes
NoTarget == [abs |-> FALSE, segs |-> <<>>]
DirNode == [kind |-> "dir", size |-> 0, data |-> 0, target |-> NoTarget]
FileNode(sz, d) == [kind |-> "file", size |-> sz, data |-> d, target |-> NoTarget]
LinkNode(t) == [kind |-> "link", size |-> 0, data |-> 0, target |-> t]
SpecialNode == [kind |-> "special", size |-> 0, data |-> 0, target |-> NoTarget]

Parent(p) == SubSeq(p, 1, Len(p) - 1)
Last(p) == p[Len(p)]
IsPrefix(p, q) == Len(p) <= Len(q) /\ SubSeq(q, 1, Len(p)) = p
Under(p, q) == IsPrefix(p, q) /\ p # q
Restrict(f, S) == [q \in S |-> f[q]]
Without(f, S) == [q \in DOMAIN f \ S |-> f[q]]

\* the value of F at v, with v computed once
Once(v, F(_)) == CHOOSE r \in {F(x) : x \in {v}} : TRUE

\* ----------------------------------------------------------- path lookup
\* Kernel path resolution: cur is the (real) directory reached so far, rest
\* the names still to look up.  A symbolic link met on the way is followed;
\* the last name is followed only when follow is TRUE (stat versus lstat).
RECURSIVE Walk(_, _, _, _, _)
Walk(f, cur, rest, follow, fuel) ==
  IF rest = <<>> THEN [ok |-> TRUE, path |-> cur]
  ELSE LET Look(c, seg, tl, p) ==
             IF seg = ".." THEN Walk(f, Parent(c), tl, follow, fuel)
             ELSE IF seg = "." THEN Walk(f, c, tl, follow, fuel)
             ELSE IF p \notin DOMAIN f THEN [ok |-> FALSE, path |-> p]
             ELSE IF f[p].kind = "link" /\ (tl # <<>> \/ follow)
               THEN IF fuel = 0 THEN [ok |-> FALSE, path |-> p]
                    ELSE Walk(f, IF f[p].target.abs THEN <<>> ELSE c,
                              f[p].target.segs \o tl, follow, fuel - 1)
             ELSE IF tl = <<>> THEN [ok |-> TRUE, path |-> p]
             ELSE IF f[p].kind = "dir" THEN Walk(f, p, tl, follow, fuel)
             ELSE [ok |-> FALSE, path |-> p]
       IN Once(<<cur, rest>>,
               LAMBDA x : Look(x[1], Head(x[2]), Tail(x[2]), Append(x[1], Head(x[2]))))

Stat(f, p) == Walk(f, <<>>, p, TRUE, SymlinkFuel)
Lstat(f, p) == Walk(f, <<>>, p, FALSE, SymlinkFuel)
KindOf(f, r) == IF ~r.ok THEN "none" ELSE IF r.path = <<>> THEN "dir" ELSE f[r.path].kind

\* os.path predicates
exists(f, p) == Stat(f, p).ok
lexists(f, p) == Lstat(f, p).ok
isdir(f, p) == Once(Stat(f, p), LAMBDA r : KindOf(f, r) = "dir")
isfile(f, p) == Once(Stat(f, p), LAMBDA r : KindOf(f, r) = "file")
islink(f, p) == Once(Lstat(f, p), LAMBDA r : KindOf(f, r) = "link")

\* where a new entry named by p would be created: the real parent directory
\* plus the last name; ok is FALSE when the parent is missing or no directory
Loc(f, p) ==
  IF p = <<>> THEN [ok |-> FALSE, path |-> <<>>]
  ELSE Once(Stat(f, Parent(p)),
            LAMBDA r : [ok |-> KindOf(f, r) = "dir" /\ Last(p) \notin {".", ".."},
                        path |-> Append(r.path, Last(p))])

\* os.listdir: the names in the directory p resolves to
ListDir(f, p) ==
  Once(Stat(f, p),
       LAMBDA r : IF KindOf(f, r) # "dir" THEN {}
                  ELSE {Last(q) : q \in {x \in DOMAIN f : Len(x) > 0 /\ Parent(x) = r.path}})

\* ------------------------------------------------- filesystem primitives
\* every primitive returns [ok, fs]: ok = FALSE stands for a raised OSError
\* and fs is then the filesystem the failed call leaves behind
Fail(f) == [ok |-> FALSE, fs |-> f]
Done(f) == [ok |-> TRUE, fs |-> f]

Mkdir(f, p) ==
  Once(Loc(f, p),
       LAMBDA loc : IF loc.ok /\ loc.path \notin DOMAIN f
                      THEN Done(f @@ (loc.path :> DirNode))
                      ELSE Fail(f))

\* os.makedirs(p, exist_ok)
RECURSIVE MakeDirs(_, _, _)
MakeDirs(f, p, exist_ok) ==
  IF p = <<>> THEN (IF exist_ok THEN Done(f) ELSE Fail(f))
  ELSE Once(IF ~exists(f, Parent(p)) THEN MakeDirs(f, Parent(p), exist_ok) ELSE Done(f),
            LAMBDA up :
              IF ~up.ok /\ ~lexists(up.fs, Parent(p)) THEN Fail(up.fs)
              ELSE Once(Mkdir(up.fs, p),
                        LAMBDA m : IF m.ok THEN m
                                   ELSE IF exist_ok /\ isdir(up.fs, p) THEN Done(up.fs)
                                   ELSE Fail(up.fs)))

\* shutil.rmtree: refuses a symbolic link, a file and a missing path
RmTree(f, p) ==
  Once(Lstat(f, p),
       LAMBDA r : IF KindOf(f, r) = "dir" /\ r.path # <<>>
                    THEN Done(Without(f, {q \in DOMAIN f : IsPrefix(r.path, q)}))
                    ELSE Fail(f))

\* os.remove / os.unlink: removes a file, link or special file, not a directory
Remove(f, p) ==
  Once(Lstat(f, p),
       LAMBDA r : IF KindOf(f, r) \in {"file", "link", "special"}
                    THEN Done(Without(f, {r.path}))
                    ELSE Fail(f))

\* os.symlink(target, p): fails when p exists in any form
Symlink(f, t, p) ==
  Once(Loc(f, p),
       LAMBDA loc : IF loc.ok /\ loc.path \notin DOMAIN f
                      THEN Done(f @@ (loc.path :> LinkNode(t)))
                      ELSE Fail(f))

\* ---------------------------------------------------- path normalisation
\* A path string is modelled as [prefix, abs, segs]: prefix is "none", "ext"
\* (the extended-length prefix \\?\ or \?\) or "nt" (the NT prefix \??\), abs
\* tells whether the string is absolute, segs are its components, which may
\* be "." and "..".
PathStr(pre, a, s) == [prefix |-> pre, abs |-> a, segs |-> s]
AbsStr(p) == PathStr("none", TRUE, p)
RelStr(s) == PathStr("none", FALSE, s)

\* os.path.normpath: collapse "." and ".." lexically
RECURSIVE NormSegs(_, _)
NormSegs(segs, acc) ==
  IF segs = <<>> THEN acc
  ELSE LET s == Head(segs)
       IN NormSegs(Tail(segs),
                   IF s = "." THEN acc
                   ELSE IF s = ".." THEN Parent(acc)
                   ELSE Append(acc, s))

\* os.path.abspath: a relative string is joined to the working directory; a
\* raw prefix that was not stripped stays in the result as its first component
abspath(x, cwd) ==
  IF x.prefix # "none" THEN <<x.prefix>> \o NormSegs(x.segs, <<>>)
  ELSE NormSegs((IF x.abs THEN <<>> ELSE cwd) \o x.segs, <<>>)

normalize_path(x, cwd) == abspath(x, cwd)

isabs(x) == x.abs \/ x.prefix # "none"

\* os.readlink: the stored target; on Windows an absolute target comes back
\* with the raw prefix of the running Python build
ReadLink(f, p, e) ==
  LET r == Lstat(f, p)
  IN IF KindOf(f, r) # "link" THEN [ok |-> FALSE, raw |-> RelStr(<<>>)]
     ELSE LET t == f[r.path].target
          IN [ok |-> TRUE,
              raw |-> PathStr(IF t.abs /\ e.platform = "windows" THEN e.rawPrefix ELSE "none",
                              t.abs, t.segs)]

\* the target os.symlink stores for a path string
StoredTarget(x) == [abs |-> isabs(x), segs |-> x.segs]

\* ---------------------------------------------------------------- copying
\* where open(p, 'wb') writes: a missing name is created in its parent, an
\* existing file is overwritten, a symbolic link is written through
RECURSIVE WriteLoc(_, _, _)
WriteLoc(f, p, fuel) ==
  Once(Lstat(f, p),
       LAMBDA l :
         IF ~l.ok THEN Loc(f, p)
         ELSE IF KindOf(f, l) = "file" THEN [ok |-> TRUE, path |-> l.path]
         ELSE IF KindOf(f, l) = "link" /\ fuel > 0
           THEN WriteLoc(f, (IF f[l.path].target.abs THEN <<>> ELSE Parent(l.path))
                              \o f[l.path].target.segs, fuel - 1)
         ELSE [ok |-> FALSE, path |-> p])

\* shutil.copy2(src, dst): follows a link at src, refuses a special file and
\* a directory, fails on a file that cannot be read, copies into dst when
\* dst is a directory
CopyFile(f, src, dst, unread) ==
  LET d0 == IF isdir(f, dst) THEN Append(dst, Last(src)) ELSE dst
      Write(s, w) ==
        IF KindOf(f, s) # "file" \/ s.path \in unread \/ ~w.ok THEN Fail(f)
        ELSE Done([q \in DOMAIN f \cup {w.path} |->
                     IF q = w.path THEN FileNode(f[s.path].size, f[s.path].data) ELSE f[q]])
  IN Once(Stat(f, src), LAMBDA s : Once(WriteLoc(f, d0, SymlinkFuel), LAMBDA w : Write(s, w)))

\* shutil.copytree(src, dst, symlinks=True, dirs_exist_ok=True): the entries
\* of src are listed first, then dst is created, then every entry is copied,
\* a directory in the same way before the next entry; an entry that fails is
\* recorded and the walk goes on.  errs is the list of source names the
\* raised shutil.Error carries.  work is the stack of the calls and entries
\* still to do: tree marks the call on src itself, which lists through a
\* link at src.
RECURSIVE TasksOf(_, _, _, _)
TasksOf(src, dst, names, depth) ==
  IF names = {} THEN <<>>
  ELSE LET n == CHOOSE x \in names : TRUE
       IN <<[src |-> Append(src, n), dst |-> Append(dst, n), tree |-> FALSE,
             depth |-> depth]>>
            \o TasksOf(src, dst, names \ {n}, depth)

\* copytree calls itself for every directory level.  When dst lies below src
\* each level lists the directory the level above has just created, and the
\* calls nest until the interpreter raises RecursionError: that exception is
\* not an OSError, so it leaves every level at once and ends the whole call.
\* CopyTask does the task t on top of the stack and gives the filesystem, the
\* stack and the errors after it.
CopyTask(f, t, rest, unread, errs) ==
  LET k == IF t.tree THEN "dir" ELSE Once(Lstat(f, t.src), LAMBDA r : KindOf(f, r))
  IN IF k = "dir"
       THEN IF t.depth >= RecursionLimit
              THEN [fs |-> f, work |-> <<>>, errs |-> errs \cup {t.src}]
            ELSE Once(MakeDirs(f, t.dst, TRUE),
                      LAMBDA md :
                        IF ~isdir(f, t.src) \/ ~md.ok
                          THEN [fs |-> f, work |-> rest, errs |-> errs \cup {t.src}]
                        ELSE [fs |-> md.fs,
                              work |-> TasksOf(t.src, t.dst, ListDir(f, t.src), t.depth + 1)
                                         \o rest,
                              errs |-> errs])
     ELSE Once(IF k = "link" THEN Symlink(f, f[Lstat(f, t.src).path].target, t.dst)
               ELSE CopyFile(f, t.src, t.dst, unread),
               LAMBDA c : [fs |-> c.fs, work |-> rest,
                           errs |-> IF c.ok THEN errs ELSE errs \cup {t.src}])

RECURSIVE CopyEntries(_, _, _, _)
CopyEntries(f, work, unread, errs) ==
  IF work = <<>> THEN [fs |-> f, errs |-> errs]
  ELSE Once(CopyTask(f, Head(work), Tail(work), unread, errs),
            LAMBDA n : CopyEntries(n.fs, n.work, unread, n.errs))

CopyTree(f, src, dst, unread) ==
  CopyEntries(f, <<[src |-> src, dst |-> dst, tree |-> TRUE, depth |-> 0]>>, unread, {})

\* lines 64-87: what the body of the loop does with the entry item_name;
\* raised tells whether it ends in an exception, errs is what the exception
\* names
CopyAttempt(f, source_dir, dest_dir, item_name, unread) ==
  LET sp == Append(source_dir, item_name)
      dp == Append(dest_dir, item_name)
      Blocked(rm) == [fs |-> rm.fs, raised |-> TRUE, errs |-> {dp}, skipped |-> FALSE]
      Copied(c, name) == [fs |-> c.fs, raised |-> ~c.ok,
                          errs |-> IF c.ok THEN {} ELSE {name}, skipped |-> FALSE]
      Tree(rm) ==
        IF ~rm.ok THEN Blocked(rm)
        ELSE Once(CopyTree(rm.fs, sp, dp, unread),
                  LAMBDA ct : [fs |-> ct.fs, raised |-> ct.errs # {}, errs |-> ct.errs,
                               skipped |-> FALSE])
      File(rm) ==
        IF ~rm.ok THEN Blocked(rm)
        ELSE Once(CopyFile(rm.fs, sp, dp, unread), LAMBDA c : Copied(c, sp))
      Link(rm) ==
        IF ~rm.ok THEN Blocked(rm)
        ELSE Once(Symlink(rm.fs, f[Lstat(f, sp).path].target, dp), LAMBDA c : Copied(c, dp))
  IN IF isdir(f, sp)
       THEN Once(IF isfile(f, dp) THEN Remove(f, dp) ELSE Done(f), Tree)
     ELSE IF isfile(f, sp)
       THEN Once(IF isdir(f, dp) THEN RmTree(f, dp) ELSE Done(f), File)
     ELSE IF islink(f, sp)
       THEN Once(IF ~lexists(f, dp) THEN Done(f)
                 ELSE IF islink(f, dp) THEN Remove(f, dp)
                 ELSE IF isdir(f, dp) THEN RmTree(f, dp)
                 ELSE Remove(f, dp), Link)
     ELSE [fs |-> f, raised |-> FALSE, errs |-> {}, skipped |-> TRUE]

\* mutant: the exception of an entry is swallowed and the entry not recorded
CopyItem_SwallowsFailure(f, source_dir, dest_dir, item_name, unread) ==
  Once(CopyAttempt(f, source_dir, dest_dir, item_name, unread),
       LAMBDA a : [fs |-> a.fs, failed |-> FALSE, errs |-> {}, skipped |-> a.skipped])

\* mutant: an entry of an unsupported type is recorded like one that failed
CopyItem_SkippedIsFailure(f, source_dir, dest_dir, item_name, unread) ==
  Once(CopyAttempt(f, source_dir, dest_dir, item_name, unread),
       LAMBDA a : [fs |-> a.fs, failed |-> a.raised \/ a.skipped, errs |-> a.errs,
                   skipped |-> FALSE])

\* lines 61-97: one pass of the loop of copy_directory_contents_robust; an
\* exception of the body puts the entry on failed_files and the loop goes on
CopyItem(f, source_dir, dest_dir, item_name, unread) ==
  Once(CopyAttempt(f, source_dir, dest_dir, item_name, unread),
       LAMBDA a : [fs |-> a.fs, failed |-> a.raised, errs |-> a.errs, skipped |-> a.skipped])

\* ------------------------------------------------------------- validation
\* os.path.getsize follows symbolic links; an entry that cannot be sized
\* contributes zero
GetSize(f, q) ==
  Once(Stat(f, q), LAMBDA r : IF r.ok /\ r.path # <<>> THEN f[r.path].size ELSE 0)

RECURSIVE SumSizes(_, _)
SumSizes(f, S) ==
  IF S = {} THEN 0
  ELSE Once(CHOOSE x \in S : TRUE, LAMBDA q : GetSize(f, q) + SumSizes(f, S \ {q}))

\* the totals one os.walk of validate_copy_basic computes: every entry below
\* dir counts once; the entries os.walk lists as files are sized
TreeStats(f, dir) ==
  LET Below(r) == IF KindOf(f, r) = "dir" THEN {q \in DOMAIN f : Under(r.path, q)} ELSE {}
  IN Once(Once(Stat(f, dir), Below),
          LAMBDA below : [count |-> Cardinality(below),
                          size |-> SumSizes(f, {q \in below : ~isdir(f, q)})])

validate_copy_basic(f, source_dir, dest_dir) ==
  LET s == TreeStats(f, source_dir)
      d == TreeStats(f, dest_dir)
  IN s.count = d.count /\ s.size = d.size

\* ------------------------------------------------------------------ state
VARIABLES
  fs,             \* the filesystem
  env,            \* platform, elevation, raw prefix of os.readlink, working directory
  unreadable,     \* files that cannot be opened for reading (locked, no permission)
  req,            \* original_data_path, new_data_storage_path, skip_validation
  caller,         \* "main": the command line; "api": a direct call of the function
  pc,             \* position in migrate_and_link_directory
  norm_orig_path,         \* line 191
  norm_new_storage_path,  \* line 192
  original_path_existed_as_dir,
  perform_data_copy,
  failed_files,
  pending,        \* entries of os.listdir(source_dir) the copy loop has not visited
  result,         \* outcome of the last finished run
  exit_code,      \* exit code of the command line, -1 while there is none
  runs,           \* invocations started so far
  prev_result,    \* outcome of the run before the current one
  fsStart,        \* the filesystem when the current run started
  fsFirst,        \* the filesystem before the first run
  trace,          \* the steps of the current run that acted on the filesystem
  log,            \* error, warning and critical records of the current run
  vscode,         \* update_VSCode_Insiders.py: the run and what it acts on
  robotask,       \* RoboTask_Trial_Reset.py: the run, the registry and the files
  chromium,       \* update_ungoogled_chromium.py: the run and what it acts on
  repomix         \* repomix.py: the repository and the walk of RepoMixer._walk_repo

vars == <<fs, env, unreadable, req, caller, pc, norm_orig_path,
          norm_new_storage_path, original_path_existed_as_dir,
          perform_data_copy, failed_files, pending, result, exit_code, runs,
          prev_result, fsStart, fsFirst, trace, log, vscode, robotask, chromium, repomix>>

\* the variables of mklink_tool.py
mklink == <<fs, env, unreadable, req, caller, pc, norm_orig_path,
            norm_new_storage_path, original_path_existed_as_dir,
            perform_data_copy, failed_files, pending, result, exit_code, runs,
            prev_result, fsStart, fsFirst, trace, log>>


\* ---------------------------------------------------------- initial states
H == <<"h">>
L == <<"h", "l">>
D == <<"d">>
S == <<"d", "s">>
E == <<"e">>
W == <<"w">>

EmptyTree == [q \in {} |-> DirNode]
Graft(p, tree) == [q \in {p \o r : r \in DOMAIN tree} |-> tree[SubSeq(q, Len(p) + 1, Len(q))]]
Ancestors(p) == [q \in {SubSeq(p, 1, k) : k \in 1..(Len(p) - 1)} |-> DirNode]

RelTarget(s) == [abs |-> FALSE, segs |-> s]
AbsTarget(s) == [abs |-> TRUE, segs |-> s]

\* contents of the original directory, with the files that cannot be read
TreeA == (<<"f">> :> FileNode(1, 1))
TreeB == (<<"f">> :> FileNode(1, 1)) @@ (<<"d">> :> DirNode) @@ (<<"d", "g">> :> FileNode(2, 2))
TreeC == (<<"f">> :> FileNode(1, 1)) @@ (<<"k">> :> LinkNode(RelTarget(<<"f">>)))
           @@ (<<"x">> :> LinkNode(RelTarget(<<"nowhere">>)))
TreeD == (<<"e">> :> DirNode) @@ (<<"e", "g">> :> FileNode(2, 2))
           @@ (<<"e", "j">> :> LinkNode(RelTarget(<<"g">>)))
           @@ (<<"kd">> :> LinkNode(RelTarget(<<"e">>)))
TreeE == (<<"f">> :> FileNode(1, 1)) @@ (<<"p">> :> SpecialNode)
TreeF == (<<"d">> :> DirNode) @@ (<<"d", "p">> :> SpecialNode) @@ (<<"d", "g">> :> FileNode(2, 2))

LiveDirs ==
  { [kind |-> "dir", tree |-> EmptyTree, unread |-> {}, target |-> NoTarget, parent |-> TRUE],
    [kind |-> "dir", tree |-> TreeA, unread |-> {}, target |-> NoTarget, parent |-> TRUE],
    [kind |-> "dir", tree |-> TreeA, unread |-> {<<"f">>}, target |-> NoTarget, parent |-> TRUE],
    [kind |-> "dir", tree |-> TreeB, unread |-> {}, target |-> NoTarget, parent |-> TRUE],
    [kind |-> "dir", tree |-> TreeB, unread |-> {<<"d", "g">>}, target |-> NoTarget, parent |-> TRUE],
    [kind |-> "dir", tree |-> TreeC, unread |-> {}, target |-> NoTarget, parent |-> TRUE],
    [kind |-> "dir", tree |-> TreeD, unread |-> {}, target |-> NoTarget, parent |-> TRUE],
    [kind |-> "dir", tree |-> TreeE, unread |-> {}, target |-> NoTarget, parent |-> TRUE],
    [kind |-> "dir", tree |-> TreeF, unread |-> {}, target |-> NoTarget, parent |-> TRUE] }

LiveLinks(nn) ==
  { [kind |-> "link", tree |-> EmptyTree, unread |-> {}, target |-> t, parent |-> TRUE] :
      t \in { AbsTarget(nn), RelTarget(<<"s">>), AbsTarget(E),
              AbsTarget(<<"x">>), AbsTarget(E \o <<"f">>) } }

Others ==
  { [kind |-> "none", tree |-> EmptyTree, unread |-> {}, target |-> NoTarget, parent |-> TRUE],
    [kind |-> "none", tree |-> EmptyTree, unread |-> {}, target |-> NoTarget, parent |-> FALSE],
    [kind |-> "file", tree |-> EmptyTree, unread |-> {}, target |-> NoTarget, parent |-> TRUE] }

LiveStates(nn) == LiveDirs \cup LiveLinks(nn) \cup Others

StorageStates ==
  Others \cup
  { [kind |-> "dir", tree |-> EmptyTree, unread |-> {}, target |-> NoTarget, parent |-> TRUE],
    [kind |-> "dir", tree |-> (<<"a">> :> FileNode(1, 3)), unread |-> {}, target |-> NoTarget,
     parent |-> TRUE] }

Place(v, p) ==
  IF v.kind = "none" THEN (IF v.parent THEN Ancestors(p) ELSE EmptyTree)
  ELSE IF v.kind = "file" THEN (p :> FileNode(1, 7)) @@ Ancestors(p)
  ELSE IF v.kind = "dir" THEN (p :> DirNode) @@ Graft(p, v.tree) @@ Ancestors(p)
  ELSE (p :> LinkNode(v.target)) @@ Ancestors(p)

BaseFs == (E :> DirNode) @@ (E \o <<"f">> :> FileNode(1, 9)) @@ (W :> DirNode)

WellFormed(f) ==
  \A q \in DOMAIN f :
     /\ Len(q) > 0
     /\ Len(q) > 1 => (Parent(q) \in DOMAIN f /\ f[Parent(q)].kind = "dir")

LKind(f, p) == KindOf(f, Lstat(f, p))

\* the requests: the two paths as the caller wrote them
Requests ==
  { [orig |-> AbsStr(L), new |-> AbsStr(S)],
    [orig |-> AbsStr(L), new |-> RelStr(<<"s">>)],
    [orig |-> RelStr(<<"..", "h", "l">>), new |-> AbsStr(<<"h", "l", ".", "s">>)],
    [orig |-> AbsStr(<<"d", "s", "x", "..", "l">>), new |-> RelStr(<<"..", "d", "s">>)],
    [orig |-> AbsStr(L), new |-> RelStr(<<"..", "h", "l">>)],
    [orig |-> AbsStr(L), new |-> AbsStr(H \o <<"s">>)],
    [orig |-> AbsStr(L), new |-> AbsStr(L \o <<"d", "s">>)] }

\* the platform, the elevation of the process and the way it was started
PosixEnv == [platform |-> "posix", admin |-> FALSE, rawPrefix |-> "none", cwd |-> W]
WinEnv(adm) == [platform |-> "windows", admin |-> adm, rawPrefix |-> "ext", cwd |-> W]

Setups ==
  { <<PosixEnv, "api">>, <<PosixEnv, "main">>, <<WinEnv(TRUE), "main">>,
    <<WinEnv(FALSE), "api">>, <<WinEnv(FALSE), "main">> }

\* the other two programs while they are not run
VsParked == [pc |-> "parked"]
RtParked == [pc |-> "parked"]
CrParked == [pc |-> "parked"]
RmParked == [pc |-> "parked"]

Init ==
  /\ vscode = VsParked
  /\ robotask = RtParked
  /\ chromium = CrParked
  /\ repomix = RmParked
  /\ \E su \in Setups : env = su[1] /\ caller = su[2]
  /\ \E r \in Requests :
       LET no == normalize_path(r.orig, env.cwd)
           nn == normalize_path(r.new, env.cwd)
       IN /\ req = [orig |-> r.orig, new |-> r.new, skip |-> FALSE]
          /\ \E lv \in LiveStates(nn), sv \in StorageStates :
               LET f == Place(lv, no) @@ Place(sv, nn) @@ BaseFs
               IN /\ WellFormed(f)
                  /\ LKind(f, no) = lv.kind
                  /\ (no # nn => LKind(f, nn) = sv.kind)
                  /\ fs = f
                  /\ norm_orig_path = no
                  /\ norm_new_storage_path = nn
                  /\ unreadable = {no \o u : u \in lv.unread}
  /\ pc = "idle"
  /\ original_path_existed_as_dir = FALSE
  /\ perform_data_copy = FALSE
  /\ failed_files = <<>>
  /\ pending = {}
  /\ result = "none"
  /\ exit_code = -1
  /\ runs = 0
  /\ prev_result = "none"
  /\ fsStart = fs
  /\ fsFirst = fs
  /\ trace = <<>>
  /\ log = {}

\* ---------------------------------------------------------------- actions
Windows == env.platform = "windows"

\* mutant: the command line does not turn an exception into an exit code
Finish_ExitsZero(res) ==
  /\ pc' = "idle"
  /\ result' = res
  /\ exit_code' = IF caller = "main" THEN 0 ELSE -1

\* the run ends: a return is "ok", a raised exception its kind; the command
\* line turns it into the exit code (lines 395-400)
Finish(res) ==
  /\ pc' = "idle"
  /\ result' = res
  /\ exit_code' = IF caller = "main" THEN (IF res = "ok" THEN 0 ELSE 1) ELSE -1

StartRun(sk) ==
  /\ req' = [req EXCEPT !.skip = sk]
  /\ norm_orig_path' = normalize_path(req.orig, env.cwd)
  /\ norm_new_storage_path' = normalize_path(req.new, env.cwd)
  /\ runs' = runs + 1
  /\ prev_result' = result
  /\ fsStart' = fs
  /\ original_path_existed_as_dir' = FALSE
  /\ perform_data_copy' = FALSE
  /\ failed_files' = <<>>
  /\ pending' = {}
  /\ trace' = <<>>
  /\ log' = {}

\* __main__: the elevation check of the command line, then the call
MainEntry ==
  /\ caller = "main" /\ pc = "idle" /\ runs < MaxRuns
  /\ \E sk \in BOOLEAN : StartRun(sk)
  /\ IF Windows /\ ~env.admin
       THEN Finish("NotElevated")
       ELSE pc' = "check" /\ result' = "none" /\ exit_code' = -1
  /\ UNCHANGED <<fs, env, vscode, robotask, chromium, repomix, unreadable, caller, fsFirst>>

\* a direct call of migrate_and_link_directory
ApiCall ==
  /\ caller = "api" /\ pc = "idle" /\ runs < MaxRuns
  /\ \E sk \in BOOLEAN : StartRun(sk)
  /\ pc' = "check" /\ result' = "none" /\ exit_code' = -1
  /\ UNCHANGED <<fs, env, vscode, robotask, chromium, repomix, unreadable, caller, fsFirst>>

\* lines 196-199: only the extended-length prefix is stripped here
StripExtended(raw) == IF raw.prefix = "ext" THEN [raw EXCEPT !.prefix = "none"] ELSE raw

\* mutant: the link target is compared with the original path
AlreadyLinked_ComparesOriginal(f, e, no, nn) ==
  /\ islink(f, no)
  /\ abspath(StripExtended(ReadLink(f, no, e).raw), e.cwd) = no

\* lines 193-205: is the original path a link that already points at the
\* new storage path
AlreadyLinked(f, e, no, nn) ==
  /\ islink(f, no)
  /\ abspath(StripExtended(ReadLink(f, no, e).raw), e.cwd) = nn

\* lines 190-214
CheckAlreadyAligned ==
  /\ pc = "check"
  /\ IF AlreadyLinked(fs, env, norm_orig_path, norm_new_storage_path)
       THEN /\ Finish("ok")
            /\ UNCHANGED original_path_existed_as_dir
       ELSE /\ original_path_existed_as_dir' = isdir(fs, norm_orig_path)
            /\ pc' = "basic"
            /\ UNCHANGED <<result, exit_code>>
  /\ UNCHANGED <<fs, env, vscode, robotask, chromium, repomix, unreadable, req, norm_orig_path, norm_new_storage_path, caller, perform_data_copy, failed_files,
                 pending, runs, prev_result, fsStart, fsFirst, trace, log>>

\* mutant: the elevation is not checked before the parents are made
BasicValidation_NoElevationCheck ==
  /\ pc = "basic"
  /\ IF norm_orig_path = norm_new_storage_path THEN Finish("ValueError")
     ELSE pc' = "parents" /\ UNCHANGED <<result, exit_code>>
  /\ UNCHANGED <<fs, env, vscode, robotask, chromium, repomix, unreadable, req, norm_orig_path, norm_new_storage_path, caller, original_path_existed_as_dir,
                 perform_data_copy, failed_files, pending, runs, prev_result,
                 fsStart, fsFirst, trace, log>>

\* lines 216-221
BasicValidation ==
  /\ pc = "basic"
  /\ IF norm_orig_path = norm_new_storage_path THEN Finish("ValueError")
     ELSE IF Windows /\ ~env.admin THEN Finish("PermissionError")
     ELSE pc' = "parents" /\ UNCHANGED <<result, exit_code>>
  /\ UNCHANGED <<fs, env, vscode, robotask, chromium, repomix, unreadable, req, norm_orig_path, norm_new_storage_path, caller, original_path_existed_as_dir,
                 perform_data_copy, failed_files, pending, runs, prev_result,
                 fsStart, fsFirst, trace, log>>

\* lines 30-41
create_parent_dirs(f, file_path) ==
  LET parent_dir == Parent(file_path)
  IN IF ~exists(f, parent_dir) THEN MakeDirs(f, parent_dir, TRUE) ELSE Done(f)

\* lines 224-229
PrepareParents ==
  /\ pc = "parents"
  /\ \E a \in {create_parent_dirs(fs, norm_new_storage_path)} :
     \E b \in {IF a.ok THEN create_parent_dirs(a.fs, norm_orig_path) ELSE a} :
        /\ fs' = b.fs
        /\ trace' = IF b.fs # fs THEN Append(trace, "mkparents") ELSE trace
        /\ IF b.ok THEN pc' = "storage" /\ UNCHANGED <<result, exit_code>>
           ELSE Finish("ParentDirError")
  /\ UNCHANGED <<env, vscode, robotask, chromium, repomix, unreadable, req, norm_orig_path, norm_new_storage_path, caller, original_path_existed_as_dir,
                 perform_data_copy, failed_files, pending, runs, prev_result,
                 fsStart, fsFirst, log>>

\* mutant: the copy is decided without the "not": it runs when the storage
\* path exists and is left out when it does not
CheckStoragePath_NegationDropped ==
  /\ pc = "storage"
  /\ IF exists(fs, norm_new_storage_path) /\ ~isdir(fs, norm_new_storage_path)
       THEN Finish("FileExistsError") /\ UNCHANGED perform_data_copy
       ELSE /\ perform_data_copy' =
                 (original_path_existed_as_dir /\ exists(fs, norm_new_storage_path))
            /\ pc' = IF perform_data_copy' THEN "copy"
                     ELSE IF original_path_existed_as_dir THEN "delete"
                     ELSE "ensure"
            /\ UNCHANGED <<result, exit_code>>
  /\ UNCHANGED <<fs, env, vscode, robotask, chromium, repomix, unreadable, req, norm_orig_path, norm_new_storage_path, caller, original_path_existed_as_dir,
                 failed_files, pending, runs, prev_result, fsStart, fsFirst, trace, log>>

\* mutant: the original is copied into the storage path also when the
\* storage path already exists
CheckStoragePath_AlwaysCopies ==
  /\ pc = "storage"
  /\ IF exists(fs, norm_new_storage_path) /\ ~isdir(fs, norm_new_storage_path)
       THEN Finish("FileExistsError") /\ UNCHANGED perform_data_copy
       ELSE /\ perform_data_copy' = original_path_existed_as_dir
            /\ pc' = IF perform_data_copy' THEN "copy"
                     ELSE IF original_path_existed_as_dir THEN "delete"
                     ELSE "ensure"
            /\ UNCHANGED <<result, exit_code>>
  /\ UNCHANGED <<fs, env, vscode, robotask, chromium, repomix, unreadable, req, norm_orig_path, norm_new_storage_path, caller, original_path_existed_as_dir,
                 failed_files, pending, runs, prev_result, fsStart, fsFirst, trace, log>>

\* lines 231-244
CheckStoragePath ==
  /\ pc = "storage"
  /\ IF exists(fs, norm_new_storage_path) /\ ~isdir(fs, norm_new_storage_path)
       THEN Finish("FileExistsError") /\ UNCHANGED perform_data_copy
       ELSE /\ perform_data_copy' =
                 (original_path_existed_as_dir /\ ~exists(fs, norm_new_storage_path))
            /\ pc' = IF perform_data_copy' THEN "copy"
                     ELSE IF original_path_existed_as_dir THEN "delete"
                     ELSE "ensure"
            /\ UNCHANGED <<result, exit_code>>
  /\ UNCHANGED <<fs, env, vscode, robotask, chromium, repomix, unreadable, req, norm_orig_path, norm_new_storage_path, caller, original_path_existed_as_dir,
                 failed_files, pending, runs, prev_result, fsStart, fsFirst, trace, log>>

\* lines 51-60 (and 248-252): the destination is created, the source listed
CopyBegin ==
  /\ pc = "copy"
  /\ \E md \in {IF ~exists(fs, norm_new_storage_path)
                 THEN MakeDirs(fs, norm_new_storage_path, FALSE)
               ELSE IF ~isdir(fs, norm_new_storage_path) THEN Fail(fs)
               ELSE Done(fs)} :
        /\ fs' = md.fs
        /\ IF md.ok /\ isdir(md.fs, norm_orig_path)
             THEN /\ pending' = ListDir(md.fs, norm_orig_path)
                  /\ pc' = "copy_items"
                  /\ trace' = Append(trace, "copy")
                  /\ UNCHANGED <<result, exit_code>>
             ELSE /\ Finish("CopyError")
                  /\ UNCHANGED <<pending, trace>>
  /\ UNCHANGED <<env, vscode, robotask, chromium, repomix, unreadable, req, norm_orig_path, norm_new_storage_path, caller, original_path_existed_as_dir,
                 perform_data_copy, failed_files, runs, prev_result, fsStart,
                 fsFirst, log>>

\* mutant: the first entry that fails ends the loop; the entries not yet
\* visited are left out
CopyItemStep_AbortsOnFailure ==
  /\ pc = "copy_items"
  /\ \E item_name \in pending :
     \E c \in {CopyItem(fs, norm_orig_path, norm_new_storage_path, item_name, unreadable)} :
       LET source_item_path == Append(norm_orig_path, item_name)
       IN /\ fs' = c.fs
          /\ pending' = IF c.failed THEN {} ELSE pending \ {item_name}
          /\ failed_files' = IF c.failed THEN Append(failed_files, source_item_path)
                             ELSE failed_files
          /\ log' = IF c.failed
                      THEN log \cup {[level |-> "error", what |-> "copy",
                                      item |-> source_item_path, names |-> c.errs]}
                    ELSE IF c.skipped
                      THEN log \cup {[level |-> "warning", what |-> "unsupported",
                                      item |-> source_item_path, names |-> {}]}
                    ELSE log
  /\ UNCHANGED <<env, vscode, robotask, chromium, repomix, unreadable, req, norm_orig_path, norm_new_storage_path, caller, pc, original_path_existed_as_dir,
                 perform_data_copy, result, exit_code, runs, prev_result, fsStart,
                 fsFirst, trace>>

\* lines 60-97: one entry of the listing, in the order os.listdir gave
CopyItemStep ==
  /\ pc = "copy_items"
  /\ \E item_name \in pending :
     \E c \in {CopyItem(fs, norm_orig_path, norm_new_storage_path, item_name, unreadable)} :
       LET source_item_path == Append(norm_orig_path, item_name)
       IN /\ fs' = c.fs
          /\ pending' = pending \ {item_name}
          /\ failed_files' = IF c.failed THEN Append(failed_files, source_item_path)
                             ELSE failed_files
          /\ log' = IF c.failed
                      THEN log \cup {[level |-> "error", what |-> "copy",
                                      item |-> source_item_path, names |-> c.errs]}
                    ELSE IF c.skipped
                      THEN log \cup {[level |-> "warning", what |-> "unsupported",
                                      item |-> source_item_path, names |-> {}]}
                    ELSE log
  /\ UNCHANGED <<env, vscode, robotask, chromium, repomix, unreadable, req, norm_orig_path, norm_new_storage_path, caller, pc, original_path_existed_as_dir,
                 perform_data_copy, result, exit_code, runs, prev_result, fsStart,
                 fsFirst, trace>>

\* mutant: the failed items stop the run only when the copy is validated
CopyEnd_GateUnlessSkip ==
  /\ pc = "copy_items" /\ pending = {}
  /\ IF failed_files # <<>> /\ ~req.skip
       THEN /\ Finish("TransferError")
            /\ log' = log \cup {[level |-> "error", what |-> "failed_files",
                                 item |-> failed_files[i], names |-> {}] :
                                 i \in 1..Len(failed_files)}
       ELSE /\ pc' = "validate"
            /\ UNCHANGED <<result, exit_code, log>>
  /\ UNCHANGED <<fs, env, vscode, robotask, chromium, repomix, unreadable, req, norm_orig_path, norm_new_storage_path, caller, original_path_existed_as_dir,
                 perform_data_copy, failed_files, pending, runs, prev_result,
                 fsStart, fsFirst, trace>>

\* mutant: the entries that failed are tried again until none fails
CopyEnd_RetriesOnFailure ==
  /\ pc = "copy_items" /\ pending = {}
  /\ IF failed_files # <<>>
       THEN /\ pending' = {Last(failed_files[i]) : i \in 1..Len(failed_files)}
            /\ failed_files' = <<>>
            /\ UNCHANGED <<pc, result, exit_code, log>>
       ELSE /\ pc' = "validate"
            /\ UNCHANGED <<result, exit_code, log, failed_files, pending>>
  /\ UNCHANGED <<fs, env, vscode, robotask, chromium, repomix, unreadable, req, norm_orig_path, norm_new_storage_path, caller,
                 original_path_existed_as_dir, perform_data_copy, runs, prev_result,
                 fsStart, fsFirst, trace>>

\* lines 99-100 and 254-259: the list is returned and gates the run
CopyEnd ==
  /\ pc = "copy_items" /\ pending = {}
  /\ IF failed_files # <<>>
       THEN /\ Finish("TransferError")
            /\ log' = log \cup {[level |-> "error", what |-> "failed_files",
                                 item |-> failed_files[i], names |-> {}] :
                                 i \in 1..Len(failed_files)}
       ELSE /\ pc' = "validate"
            /\ UNCHANGED <<result, exit_code, log>>
  /\ UNCHANGED <<fs, env, vscode, robotask, chromium, repomix, unreadable, req, norm_orig_path, norm_new_storage_path, caller, original_path_existed_as_dir,
                 perform_data_copy, failed_files, pending, runs, prev_result,
                 fsStart, fsFirst, trace>>

\* mutant: the flag is read the wrong way round, the copy is validated
\* only when skip_validation is given
ValidateCopy_FlagInverted ==
  /\ pc = "validate"
  /\ IF req.skip
       THEN IF validate_copy_basic(fs, norm_orig_path, norm_new_storage_path)
              THEN /\ pc' = "delete"
                   /\ trace' = Append(trace, "validated")
                   /\ UNCHANGED <<result, exit_code>>
              ELSE /\ Finish("ValidationMismatch")
                   /\ UNCHANGED trace
       ELSE /\ pc' = "delete"
            /\ trace' = Append(trace, "validation_skipped")
            /\ UNCHANGED <<result, exit_code>>
  /\ UNCHANGED <<fs, env, vscode, robotask, chromium, repomix, unreadable, req, norm_orig_path, norm_new_storage_path, caller, original_path_existed_as_dir,
                 perform_data_copy, failed_files, pending, runs, prev_result,
                 fsStart, fsFirst, log>>

\* lines 261-268
ValidateCopy ==
  /\ pc = "validate"
  /\ IF ~req.skip
       THEN IF validate_copy_basic(fs, norm_orig_path, norm_new_storage_path)
              THEN /\ pc' = "delete"
                   /\ trace' = Append(trace, "validated")
                   /\ UNCHANGED <<result, exit_code>>
              ELSE /\ Finish("ValidationMismatch")
                   /\ UNCHANGED trace
       ELSE /\ pc' = "delete"
            /\ trace' = Append(trace, "validation_skipped")
            /\ UNCHANGED <<result, exit_code>>
  /\ UNCHANGED <<fs, env, vscode, robotask, chromium, repomix, unreadable, req, norm_orig_path, norm_new_storage_path, caller, original_path_existed_as_dir,
                 perform_data_copy, failed_files, pending, runs, prev_result,
                 fsStart, fsFirst, log>>

\* what a shutil.rmtree that stops at an entry it cannot delete leaves behind:
\* nothing is gone yet, or everything but that entry and the directories
\* above it
PartialRemovals(f, p) ==
  LET r == Lstat(f, p)
      below == {q \in DOMAIN f : Under(r.path, q)}
  IN {f} \cup {Without(f, {q \in below : ~IsPrefix(q, u)}) : u \in below}

\* lines 140-147 and 270-279
DeleteOriginal ==
  /\ pc = "delete"
  /\ \E rm \in {RmTree(fs, norm_orig_path)} :
        \/ /\ rm.ok /\ ~exists(rm.fs, norm_orig_path)
           /\ fs' = rm.fs
           /\ trace' = Append(trace, "delete")
           /\ pc' = "ensure"
           /\ UNCHANGED <<result, exit_code>>
        \/ /\ ~rm.ok \/ exists(rm.fs, norm_orig_path)
           /\ fs' = rm.fs
           /\ UNCHANGED trace
           /\ Finish("DeleteError")
        \/ /\ rm.ok
           /\ fs' \in PartialRemovals(fs, norm_orig_path)
           /\ trace' = IF fs' # fs THEN Append(trace, "partial_delete") ELSE trace
           /\ Finish("DeleteError")
  /\ UNCHANGED <<env, vscode, robotask, chromium, repomix, unreadable, req, norm_orig_path, norm_new_storage_path, caller, original_path_existed_as_dir,
                 perform_data_copy, failed_files, pending, runs, prev_result,
                 fsStart, fsFirst, log>>

\* mutant: the storage directory is made only after a copy, never for a run
\* that did not copy
EnsureStorage_OnlyAfterCopy ==
  /\ pc = "ensure"
  /\ \E md \in {IF perform_data_copy /\ ~isdir(fs, norm_new_storage_path)
                 THEN MakeDirs(fs, norm_new_storage_path, TRUE)
                 ELSE Done(fs)} :
        /\ fs' = md.fs
        /\ trace' = IF md.fs # fs THEN Append(trace, "mkstorage") ELSE trace
        /\ IF md.ok THEN pc' = "link_parent" /\ UNCHANGED <<result, exit_code>>
           ELSE Finish("TargetDirError")
  /\ UNCHANGED <<env, vscode, robotask, chromium, repomix, unreadable, req, norm_orig_path, norm_new_storage_path, caller, original_path_existed_as_dir,
                 perform_data_copy, failed_files, pending, runs, prev_result,
                 fsStart, fsFirst, log>>

\* lines 281-290
EnsureStorage ==
  /\ pc = "ensure"
  /\ \E md \in {IF ~perform_data_copy /\ ~isdir(fs, norm_new_storage_path)
                 THEN MakeDirs(fs, norm_new_storage_path, TRUE)
                 ELSE Done(fs)} :
        /\ fs' = md.fs
        /\ trace' = IF md.fs # fs THEN Append(trace, "mkstorage") ELSE trace
        /\ IF md.ok THEN pc' = "link_parent" /\ UNCHANGED <<result, exit_code>>
           ELSE Finish("TargetDirError")
  /\ UNCHANGED <<env, vscode, robotask, chromium, repomix, unreadable, req, norm_orig_path, norm_new_storage_path, caller, original_path_existed_as_dir,
                 perform_data_copy, failed_files, pending, runs, prev_result,
                 fsStart, fsFirst, log>>

\* lines 292-299
EnsureLinkParent ==
  /\ pc = "link_parent"
  /\ \E md \in {create_parent_dirs(fs, norm_orig_path)} :
        /\ fs' = md.fs
        /\ trace' = IF md.fs # fs THEN Append(trace, "mklinkparent") ELSE trace
        /\ IF md.ok THEN pc' = "link" /\ UNCHANGED <<result, exit_code>>
           ELSE Finish("LinkParentError")
  /\ UNCHANGED <<env, vscode, robotask, chromium, repomix, unreadable, req, norm_orig_path, norm_new_storage_path, caller, original_path_existed_as_dir,
                 perform_data_copy, failed_files, pending, runs, prev_result,
                 fsStart, fsFirst, log>>

\* lines 154-162: whatever is at link_name is removed
ClearLinkName(f, link_name) ==
  IF ~lexists(f, link_name) THEN Done(f)
  ELSE IF islink(f, link_name) THEN Remove(f, link_name)
  ELSE IF isdir(f, link_name) THEN RmTree(f, link_name)
  ELSE Remove(f, link_name)

\* lines 149-176: refused tells that the platform call (mklink, os.symlink)
\* itself fails
create_directory_symlink(f, link_name, target_path, refused) ==
  LET cl == ClearLinkName(f, link_name)
      sl == Symlink(cl.fs, StoredTarget(AbsStr(target_path)), link_name)
  IN IF ~cl.ok THEN cl
     ELSE IF refused THEN Fail(cl.fs)
     ELSE sl

\* mutant: a failed link creation ends the run without the critical message
CreateLink_FailsQuietly ==
  /\ pc = "link"
  /\ \E refused \in BOOLEAN :
       LET abs_target_for_link == normalize_path(AbsStr(norm_new_storage_path), env.cwd)
       IN \E c \in {create_directory_symlink(fs, norm_orig_path, abs_target_for_link, refused)} :
          /\ fs' = c.fs
          /\ IF c.ok
               THEN /\ pc' = "validate_link"
                    /\ trace' = Append(trace, "link")
                    /\ UNCHANGED <<result, exit_code, log>>
               ELSE /\ Finish("LinkError")
                    /\ trace' = IF c.fs # fs THEN Append(trace, "cleared") ELSE trace
                    /\ UNCHANGED log
  /\ UNCHANGED <<env, vscode, robotask, chromium, repomix, unreadable, req, norm_orig_path, norm_new_storage_path, caller, original_path_existed_as_dir,
                 perform_data_copy, failed_files, pending, runs, prev_result,
                 fsStart, fsFirst>>

\* lines 302-317
CreateLink ==
  /\ pc = "link"
  /\ \E refused \in BOOLEAN :
       LET abs_target_for_link == normalize_path(AbsStr(norm_new_storage_path), env.cwd)
       IN \E c \in {create_directory_symlink(fs, norm_orig_path, abs_target_for_link, refused)} :
          /\ fs' = c.fs
          /\ IF c.ok
               THEN /\ pc' = "validate_link"
                    /\ trace' = Append(trace, "link")
                    /\ UNCHANGED <<result, exit_code, log>>
               ELSE /\ Finish("LinkError")
                    /\ trace' = IF c.fs # fs THEN Append(trace, "cleared") ELSE trace
                    /\ log' = log \cup {[level |-> "critical", what |-> "link",
                                         item |-> norm_orig_path, names |-> {}]}
  /\ UNCHANGED <<env, vscode, robotask, chromium, repomix, unreadable, req, norm_orig_path, norm_new_storage_path, caller, original_path_existed_as_dir,
                 perform_data_copy, failed_files, pending, runs, prev_result,
                 fsStart, fsFirst>>

\* lines 325-344: the target the validation computes from the link it reads
ValidatedTarget(f, e, no) ==
  LET link_target_raw == ReadLink(f, no, e).raw
      link_target_clean == IF e.platform = "windows" /\ link_target_raw.prefix = "nt"
                             THEN [link_target_raw EXCEPT !.prefix = "none"]
                             ELSE link_target_raw
  IN IF ~isabs(link_target_clean)
       THEN normalize_path(AbsStr(Parent(no) \o link_target_clean.segs), e.cwd)
       ELSE normalize_path(link_target_clean, e.cwd)

\* lines 319-349
ValidateLink ==
  /\ pc = "validate_link"
  /\ IF ~lexists(fs, norm_orig_path) THEN Finish("LinkNotFound")
     ELSE IF ~islink(fs, norm_orig_path) THEN Finish("NotALink")
     ELSE IF ValidatedTarget(fs, env, norm_orig_path) # norm_new_storage_path
       THEN Finish("LinkTargetMismatch")
     ELSE Finish("ok")
  /\ UNCHANGED <<fs, env, vscode, robotask, chromium, repomix, unreadable, req, norm_orig_path, norm_new_storage_path, caller, original_path_existed_as_dir,
                 perform_data_copy, failed_files, pending, runs, prev_result,
                 fsStart, fsFirst, trace, log>>

Next ==
  \/ MainEntry
  \/ ApiCall
  \/ CheckAlreadyAligned
  \/ BasicValidation
  \/ PrepareParents
  \/ CheckStoragePath
  \/ CopyBegin
  \/ CopyItemStep
  \/ CopyEnd
  \/ ValidateCopy
  \/ DeleteOriginal
  \/ EnsureStorage
  \/ EnsureLinkParent
  \/ CreateLink
  \/ ValidateLink

Spec == Init /\ [][Next]_vars

TypeOK ==
  /\ pc \in {"idle", "check", "basic", "parents", "storage", "copy", "copy_items",
             "validate", "delete", "ensure", "link_parent", "link", "validate_link"}
  /\ runs \in 0..MaxRuns
  /\ WellFormed(fs)

\* mklink_tool.py while another program is run: nothing of it moves
MklinkParked ==
  /\ fs = BaseFs /\ env = PosixEnv /\ unreadable = {}
  /\ req = [orig |-> AbsStr(L), new |-> AbsStr(S), skip |-> FALSE]
  /\ caller = "api" /\ pc = "idle"
  /\ norm_orig_path = L /\ norm_new_storage_path = S
  /\ original_path_existed_as_dir = FALSE /\ perform_data_copy = FALSE
  /\ failed_files = <<>> /\ pending = {}
  /\ result = "none" /\ exit_code = -1 /\ runs = 0 /\ prev_result = "none"
  /\ fsStart = BaseFs /\ fsFirst = BaseFs /\ trace = <<>> /\ log = {}

\* ================== the copier and the validator, called on their own
\* copy_directory_contents_robust(source_dir, dest_dir) and
\* validate_copy_basic(source_dir, dest_dir) with source_dir = /h/l and
\* dest_dir = /d/s; norm_orig_path and norm_new_storage_path hold the two
\* arguments.
TreeG == (<<"k">> :> LinkNode(AbsTarget(E \o <<"f">>)))
TreeH == (<<"f">> :> FileNode(2, 1))
TreeI == (<<"f">> :> FileNode(1, 1)) @@ (<<"k">> :> LinkNode(RelTarget(<<"nowhere">>)))
           @@ (<<"x">> :> LinkNode(RelTarget(<<"nowhere">>)))
\* a destination whose entries have another type than the ones of the source
TreeJ == (<<"f">> :> DirNode) @@ (<<"f", "z">> :> FileNode(1, 3))
           @@ (<<"d">> :> FileNode(1, 3)) @@ (<<"k">> :> DirNode)
\* a destination whose entries are links that lead out of it
TreeK == (<<"f">> :> LinkNode(AbsTarget(E \o <<"f">>)))
           @@ (<<"d">> :> LinkNode(AbsTarget(E)))
           @@ (<<"e">> :> LinkNode(AbsTarget(W \o <<"n">>)))

CallSources ==
  LiveDirs \cup
  { [kind |-> "dir", tree |-> TreeG, unread |-> {}, target |-> NoTarget, parent |-> TRUE] }

CallDests ==
  Others \cup
  { [kind |-> "dir", tree |-> t, unread |-> {}, target |-> NoTarget, parent |-> TRUE] :
      t \in {EmptyTree, TreeA, TreeB, TreeC, TreeD, TreeE, TreeG, TreeH, TreeI, TreeJ, TreeK} }

CallInit ==
  /\ vscode = VsParked
  /\ robotask = RtParked
  /\ chromium = CrParked
  /\ repomix = RmParked
  /\ env = PosixEnv /\ caller = "api"
  /\ req = [orig |-> AbsStr(L), new |-> AbsStr(S), skip |-> FALSE]
  /\ norm_orig_path = L /\ norm_new_storage_path = S
  /\ \E sv \in CallSources, dv \in CallDests :
       /\ fs = Place(sv, L) @@ Place(dv, S) @@ BaseFs
       /\ unreadable = {L \o u : u \in sv.unread}
  /\ pc \in {"copy", "call_validate"}
  /\ original_path_existed_as_dir = FALSE /\ perform_data_copy = FALSE
  /\ failed_files = <<>> /\ pending = {}
  /\ result = "none" /\ exit_code = -1 /\ runs = 0 /\ prev_result = "none"
  /\ fsStart = fs /\ fsFirst = fs /\ trace = <<>> /\ log = {}

\* lines 99-100: the loop is over, failed_files is returned
CopyReturn ==
  /\ pc = "copy_items" /\ pending = {}
  /\ pc' = "returned"
  /\ UNCHANGED <<fs, env, vscode, robotask, chromium, repomix, unreadable, req, norm_orig_path,
                 norm_new_storage_path, caller, original_path_existed_as_dir,
                 perform_data_copy, failed_files, pending, result, exit_code, runs,
                 prev_result, fsStart, fsFirst, trace, log>>

\* mutant: the validation compares the numbers of items only
CallValidate_CountOnly ==
  /\ pc \in {"call_validate", "returned"}
  /\ \E s \in {TreeStats(fs, norm_orig_path)} :
     \E d \in {TreeStats(fs, norm_new_storage_path)} :
       /\ result' = IF s.count = d.count THEN "True" ELSE "False"
       /\ log' = log \cup {[level |-> IF s.count = d.count THEN "info" ELSE "warning",
                            what |-> "validation", item |-> norm_orig_path,
                            names |-> {}, source |-> s, dest |-> d]}
  /\ pc' = "validated"
  /\ UNCHANGED <<fs, env, vscode, robotask, chromium, repomix, unreadable, req, norm_orig_path,
                 norm_new_storage_path, caller, original_path_existed_as_dir,
                 perform_data_copy, failed_files, pending, exit_code, runs,
                 prev_result, fsStart, fsFirst, trace>>

\* lines 105-138: a call of validate_copy_basic, on its own or on what the
\* copier returned from; lines 130-133 log the four totals
CallValidate ==
  /\ pc \in {"call_validate", "returned"}
  /\ \E ok \in {validate_copy_basic(fs, norm_orig_path, norm_new_storage_path)} :
       /\ result' = IF ok THEN "True" ELSE "False"
       /\ log' = log \cup {[level |-> IF ok THEN "info" ELSE "warning",
                            what |-> "validation", item |-> norm_orig_path,
                            names |-> {},
                            source |-> TreeStats(fs, norm_orig_path),
                            dest |-> TreeStats(fs, norm_new_storage_path)]}
  /\ pc' = "validated"
  /\ UNCHANGED <<fs, env, vscode, robotask, chromium, repomix, unreadable, req, norm_orig_path,
                 norm_new_storage_path, caller, original_path_existed_as_dir,
                 perform_data_copy, failed_files, pending, exit_code, runs,
                 prev_result, fsStart, fsFirst, trace>>

CallNext ==
  \/ CopyBegin
  \/ CopyItemStep
  \/ CopyReturn
  \/ CallValidate

CallSpec == CallInit /\ [][CallNext]_vars

\* ============================================ update_VSCode_Insiders.py
\* A text is a sequence of characters; " " stands for any white space.
\* str.strip()
RECURSIVE Strip(_)
Strip(s) ==
  IF s # <<>> /\ Head(s) = " " THEN Strip(Tail(s))
  ELSE IF s # <<>> /\ s[Len(s)] = " " THEN Strip(SubSeq(s, 1, Len(s) - 1))
  ELSE s

DigitsOrDot == {"1", "2", "."}
HexDigits == {"1", "2", "a"}
AllIn(s, chars) == \A i \in 1..Len(s) : s[i] \in chars

\* lines 76-85.  url.name is what the URL holds between "VSCode-win32-x64-"
\* and "-insider.zip"; url.shaped tells whether it holds the two at all.
extract_version(url) ==
  IF url.shaped /\ Len(url.name) >= 1 /\ AllIn(url.name, DigitsOrDot)
    THEN [ok |-> TRUE, ver |-> url.name]
  ELSE IF url.shaped /\ Len(url.name) >= 7 /\ AllIn(url.name, HexDigits)
    THEN [ok |-> TRUE, ver |-> url.name]
  ELSE [ok |-> FALSE, ver |-> <<>>]

\* a file: there tells whether it exists, text is its content
NoFile == [there |-> FALSE, text |-> <<>>]
TextFile(t) == [there |-> TRUE, text |-> t]
\* an optional string: None or a text
None == [some |-> FALSE, ver |-> <<>>]
Some(t) == [some |-> TRUE, ver |-> t]

\* lines 88-95: readable is FALSE when read_text raises
read_last_version(vfile, readable) ==
  IF vfile.there THEN (IF readable THEN Some(Strip(vfile.text)) ELSE None) ELSE None

\* lines 97-101: writable is FALSE when write_text raises; the exception is
\* printed and dropped
write_last_version(vfile, version, writable) ==
  IF writable THEN TextFile(version) ELSE vfile

\* lines 207-220: the 'data' entry exists afterwards when it existed or when
\* mkdir worked
ensure_portable_mode(data, made) == data \/ made

\* what the redirect of DOWNLOAD_URL can lead to
VsUrls ==
  { [shaped |-> TRUE, name |-> <<"1">>],
    [shaped |-> TRUE, name |-> <<"2", ".", "1">>],
    [shaped |-> TRUE, name |-> <<"a", "1", "a", "2", "a", "1", "a">>],
    [shaped |-> TRUE, name |-> <<"a", "1">>],
    [shaped |-> FALSE, name |-> <<>>] }

\* what last_version.txt can hold
VsVersionFiles ==
  { NoFile, TextFile(<<"1">>), TextFile(<<"1", " ">>), TextFile(<<"2", ".", "1">>),
    TextFile(<<"a", "1", "a", "2", "a", "1", "a">>), TextFile(<<>>) }

\* the files of the editor in the installation directory: the version they
\* belong to, and whether they are all of that version
NothingInstalled == [ver |-> <<>>, whole |-> TRUE]
Installed(v) == [ver |-> v, whole |-> TRUE]
PartlyInstalled(v) == [ver |-> v, whole |-> FALSE]

VsInit ==
  /\ MklinkParked
  /\ robotask = RtParked
  /\ chromium = CrParked
  /\ repomix = RmParked
  /\ \E install \in {"absent", "dir", "file"}, vf \in VsVersionFiles, url \in VsUrls,
        inst \in {NothingInstalled, Installed(<<"1">>)},
        data \in BOOLEAN, running \in BOOLEAN, readable \in BOOLEAN, writable \in BOOLEAN :
       /\ install # "dir" => vf = NoFile /\ inst = NothingInstalled /\ ~data
       /\ vscode = [pc |-> "idle", install |-> install, version_file |-> vf,
                    recorded0 |-> vf, installed |-> inst, installed0 |-> inst,
                    data |-> data, running |-> running, served |-> url,
                    readable |-> readable, writable |-> writable,
                    latest_ver |-> <<>>, last_ver |-> None,
                    process_found_this_iteration |-> FALSE, scan |-> "none",
                    waited |-> FALSE, downloaded |-> FALSE,
                    zip_made |-> FALSE, dir_made |-> FALSE,
                    unlinked |-> FALSE, removed |-> FALSE,
                    zip_left |-> FALSE, dir_left |-> FALSE, raised |-> FALSE,
                    runs |-> 1, prev_failed |-> FALSE, prev_latest |-> <<>>,
                    start_ok |-> (vf.there => inst = Installed(Strip(vf.text))),
                    exit_arg |-> -1, exit_code |-> -1]

VsFrame == UNCHANGED <<mklink, robotask, chromium, repomix>>

\* sys.exit(n) inside main: lines 301-302 catch SystemExit and pass, so the
\* script runs to its end and the process ends with code 0
VsExit(v, n) == [v EXCEPT !.pc = "exited", !.exit_arg = n, !.exit_code = 0]

\* lines 225-244
VsInstallDir ==
  /\ vscode.pc = "idle"
  /\ \E created \in BOOLEAN :
       vscode' = IF vscode.install = "absent"
                   THEN IF created THEN [vscode EXCEPT !.install = "dir", !.pc = "latest"]
                        ELSE VsExit(vscode, 1)
                 ELSE IF vscode.install = "file" THEN VsExit(vscode, 1)
                 ELSE [vscode EXCEPT !.pc = "latest"]
  /\ VsFrame

\* lines 248-260: answered is FALSE when the request fails
VsGetLatest ==
  /\ vscode.pc = "latest"
  /\ \E answered \in BOOLEAN :
     \E v \in {extract_version(vscode.served)} :
       vscode' = IF ~answered \/ ~v.ok THEN VsExit(vscode, 1)
                 ELSE [vscode EXCEPT !.latest_ver = v.ver, !.pc = "compare"]
  /\ VsFrame

\* lines 262-269
VsCompare ==
  /\ vscode.pc = "compare"
  /\ \E made \in BOOLEAN :
     \E last_ver \in {read_last_version(vscode.version_file, vscode.readable)} :
       vscode' = IF last_ver.some /\ last_ver.ver = vscode.latest_ver
                   THEN VsExit([vscode EXCEPT !.last_ver = last_ver,
                                              !.data = ensure_portable_mode(@, made)], 0)
                 ELSE [vscode EXCEPT !.last_ver = last_ver, !.pc = "wait_scan"]
  /\ VsFrame

\* lines 105-121: one pass over psutil.process_iter.  The pass ends at the
\* first process of that name; an exception of psutil ends it before and is
\* dropped, with the flag still False.
VsScan ==
  /\ vscode.pc = "wait_scan"
  /\ \E raised \in BOOLEAN :
       vscode' = [vscode EXCEPT
                    !.waited = TRUE,
                    !.process_found_this_iteration = ~raised /\ vscode.running,
                    !.scan = IF raised THEN "aborted"
                             ELSE IF vscode.running THEN "found" ELSE "clear",
                    !.pc = "wait_check"]
  /\ VsFrame

\* lines 123-128
VsWaitCheck ==
  /\ vscode.pc = "wait_check"
  /\ vscode' = [vscode EXCEPT !.pc = IF ~vscode.process_found_this_iteration
                                       THEN "download" ELSE "wait_scan"]
  /\ VsFrame

\* lines 131-204.  outcome is the place where download_extract fails, if it
\* does: "request" (lines 138-139), "open" (the temporary file cannot be
\* made, line 150), "stream" (the download breaks off, lines 151-153),
\* "mkdir" (line 167), "badzip" (lines 170-171), "move" (lines 175-191) or
\* "ok".  moved tells whether an item had been replaced when the move
\* failed; unlinked and removed tell whether the unlink of line 201 and the
\* rmtree of line 196 work.  An exception of a finally clause leaves the
\* function like any other.
download_extract_CleansOnSuccessOnly(v, outcome, moved, unlinked, removed) ==
  LET zip_made == outcome \notin {"request", "open"}
      dir_made == outcome \in {"badzip", "move", "ok"}
      zip_left == zip_made /\ (outcome # "ok" \/ ~unlinked)
      dir_left == dir_made /\ (outcome # "ok" \/ ~removed)
  IN [v EXCEPT !.downloaded = TRUE,
               !.zip_made = zip_made, !.dir_made = dir_made,
               !.unlinked = unlinked, !.removed = removed,
               !.zip_left = zip_left, !.dir_left = dir_left,
               !.raised = outcome # "ok" \/ zip_left \/ dir_left,
               !.installed = IF outcome = "ok" THEN Installed(v.latest_ver)
                             ELSE IF outcome = "move" /\ moved /\ @ # Installed(v.latest_ver)
                               THEN PartlyInstalled(v.latest_ver)
                             ELSE @]

download_extract(v, outcome, moved, unlinked, removed) ==
  LET zip_made == outcome \notin {"request", "open"}
      dir_made == outcome \in {"badzip", "move", "ok"}
      zip_left == zip_made /\ ~unlinked
      dir_left == dir_made /\ ~removed
  IN [v EXCEPT !.downloaded = TRUE,
               !.zip_made = zip_made, !.dir_made = dir_made,
               !.unlinked = unlinked, !.removed = removed,
               !.zip_left = zip_left, !.dir_left = dir_left,
               !.raised = outcome # "ok" \/ zip_left \/ dir_left,
               !.installed = IF outcome = "ok" THEN Installed(v.latest_ver)
                             ELSE IF outcome = "move" /\ moved /\ @ # Installed(v.latest_ver)
                               THEN PartlyInstalled(v.latest_ver)
                             ELSE @]

\* lines 273-287: every exception of download_extract ends in sys.exit(1)
VsDownloadExtract ==
  /\ vscode.pc = "download"
  /\ \E outcome \in {"ok", "request", "open", "stream", "mkdir", "badzip", "move"},
        moved \in BOOLEAN, unlinked \in BOOLEAN, removed \in BOOLEAN :
     \E d \in {download_extract(vscode, outcome, moved, unlinked, removed)} :
       vscode' = IF d.raised THEN VsExit(d, 1) ELSE [d EXCEPT !.pc = "record"]
  /\ VsFrame

\* lines 289-296: the run has come to the end of main
VsRecord ==
  /\ vscode.pc = "record"
  /\ \E made \in BOOLEAN :
       vscode' = [vscode EXCEPT
                    !.version_file = write_last_version(@, vscode.latest_ver, vscode.writable),
                    !.data = ensure_portable_mode(@, made),
                    !.pc = "done", !.exit_code = 0]
  /\ VsFrame

\* the editor is started or closed by its user while the updater runs
VsEditor ==
  /\ vscode.pc \in {"latest", "compare", "wait_scan", "wait_check", "download", "record"}
  /\ vscode' = [vscode EXCEPT !.running = ~@]
  /\ VsFrame

\* lines 298-300: the script is started again, on what the run before left
VsRestart ==
  /\ vscode.pc \in {"exited", "done"} /\ vscode.runs < MaxRuns
  /\ vscode' = [vscode EXCEPT
                  !.pc = "idle", !.runs = @ + 1,
                  !.prev_failed = vscode.raised, !.prev_latest = vscode.latest_ver,
                  !.recorded0 = vscode.version_file, !.installed0 = vscode.installed,
                  !.latest_ver = <<>>, !.last_ver = None,
                  !.process_found_this_iteration = FALSE, !.scan = "none",
                  !.waited = FALSE, !.downloaded = FALSE,
                  !.zip_made = FALSE, !.dir_made = FALSE,
                  !.unlinked = FALSE, !.removed = FALSE,
                  !.zip_left = FALSE, !.dir_left = FALSE, !.raised = FALSE,
                  !.exit_arg = -1, !.exit_code = -1]
  /\ VsFrame

VsNext ==
  \/ VsRestart
  \/ VsInstallDir
  \/ VsGetLatest
  \/ VsCompare
  \/ VsScan
  \/ VsWaitCheck
  \/ VsDownloadExtract
  \/ VsRecord
  \/ VsEditor

VsSpec == VsInit /\ [][VsNext]_vars

\* ============================================== RoboTask_Trial_Reset.py
\* The registry is the set of the keys of HKEY_CURRENT_USER, a key being the
\* sequence of its names; the filesystem is as above, with the drive as the
\* first name of a path.
SubKeys(reg, key) == {k \in reg : Len(k) = Len(key) + 1 /\ IsPrefix(key, k)}

\* mutant: without the finally clause of lines 55-57
RECURSIVE delete_registry_key_recursive_NoFinally(_, _, _, _)
delete_registry_key_recursive_NoFinally(reg, subkey_path, denied, failing) ==
  IF subkey_path \notin reg \/ subkey_path \in denied
    THEN [ok |-> FALSE, reg |-> reg, deleted |-> <<>>, opened |-> 0, closed |-> 0]
  ELSE IF subkey_path \in failing
    THEN [ok |-> FALSE, reg |-> reg, deleted |-> <<>>, opened |-> 1, closed |-> 0]
  ELSE LET RECURSIVE Children(_, _)
           Children(acc, subkeys_to_delete) ==
             IF subkeys_to_delete = {} THEN acc
             ELSE Once(CHOOSE name \in subkeys_to_delete : TRUE,
                       LAMBDA name :
                         Once(delete_registry_key_recursive_NoFinally(acc.reg, name, denied, failing),
                              LAMBDA d :
                                Children([reg |-> d.reg,
                                          deleted |-> acc.deleted \o d.deleted,
                                          opened |-> acc.opened + d.opened,
                                          closed |-> acc.closed + d.closed],
                                         subkeys_to_delete \ {name})))
       IN Once(Children([reg |-> reg, deleted |-> <<>>, opened |-> 1, closed |-> 1],
                        SubKeys(reg, subkey_path)),
               LAMBDA acc :
                 IF SubKeys(acc.reg, subkey_path) # {}
                   THEN [ok |-> FALSE, reg |-> acc.reg, deleted |-> acc.deleted,
                         opened |-> acc.opened, closed |-> acc.closed]
                 ELSE [ok |-> TRUE, reg |-> acc.reg \ {subkey_path},
                       deleted |-> Append(acc.deleted, subkey_path),
                       opened |-> acc.opened, closed |-> acc.closed])

\* lines 6-58.  A missing key makes winreg.OpenKey raise FileNotFoundError
\* and a key in denied PermissionError (no handle is opened); for a key in
\* failing winreg.EnumKey raises an OSError other than 259 with the handle
\* open, which the finally clause of lines 55-57 closes.  Otherwise the handle
\* is closed at line 33, the function calls itself for every subkey, ignoring
\* what the calls return, and deletes the key; a subkey that stays makes
\* winreg.DeleteKey of its parent fail.  Every exception ends in
\* "return False" (lines 46-54).  deleted: the keys deleted, in the order of
\* their deletion; opened, closed: the handles opened and closed by the call
\* and the calls below it.
RECURSIVE delete_registry_key_recursive(_, _, _, _)
delete_registry_key_recursive(reg, subkey_path, denied, failing) ==
  IF subkey_path \notin reg \/ subkey_path \in denied
    THEN [ok |-> FALSE, reg |-> reg, deleted |-> <<>>, opened |-> 0, closed |-> 0]
  ELSE IF subkey_path \in failing
    THEN [ok |-> FALSE, reg |-> reg, deleted |-> <<>>, opened |-> 1, closed |-> 1]
  ELSE LET RECURSIVE Children(_, _)
           Children(acc, subkeys_to_delete) ==
             IF subkeys_to_delete = {} THEN acc
             ELSE Once(CHOOSE name \in subkeys_to_delete : TRUE,
                       LAMBDA name :
                         Once(delete_registry_key_recursive(acc.reg, name, denied, failing),
                              LAMBDA d :
                                Children([reg |-> d.reg,
                                          deleted |-> acc.deleted \o d.deleted,
                                          opened |-> acc.opened + d.opened,
                                          closed |-> acc.closed + d.closed],
                                         subkeys_to_delete \ {name})))
       IN Once(Children([reg |-> reg, deleted |-> <<>>, opened |-> 1, closed |-> 1],
                        SubKeys(reg, subkey_path)),
               LAMBDA acc :
                 IF SubKeys(acc.reg, subkey_path) # {}
                   THEN [ok |-> FALSE, reg |-> acc.reg, deleted |-> acc.deleted,
                         opened |-> acc.opened, closed |-> acc.closed]
                 ELSE [ok |-> TRUE, reg |-> acc.reg \ {subkey_path},
                       deleted |-> Append(acc.deleted, subkey_path),
                       opened |-> acc.opened, closed |-> acc.closed])

\* lines 60-79: the filesystems the call can leave behind; os.remove and
\* shutil.rmtree can fail, the latter after having removed a part
delete_file_or_directory(f, path) ==
  IF ~exists(f, path) THEN {f}
  ELSE IF isfile(f, path) THEN {Remove(f, path).fs, f}
  ELSE IF isdir(f, path) THEN {RmTree(f, path).fs} \cup PartialRemovals(f, path)
  ELSE {f}

\* lines 93-101
hkcu_com_keys_to_delete ==
  << <<"Software", "Classes", "CLSID", "{BDF32BB5}">>,
     <<"Software", "Classes", "CLSID", "{8BA8CFA9}">>,
     <<"Software", "Classes", "Interface", "{5B259C24}">>,
     <<"Software", "Classes", "TypeLib", "{F3AD378E}">>,
     <<"Software", "Classes", "RoboTask.App">>,
     <<"Software", "Classes", "WOW6432Node", "Interface", "{5B259C24}">>,
     <<"Software", "Microsoft", "Windows", "CurrentVersion", "Run", "RoboTask">> >>

\* lines 104-105
user_appdata_local(home) == home \o <<"AppData", "Local">>
user_public_documents(home) == NormSegs(home \o <<"..">>, <<>>) \o <<"Public", "Documents">>

\* mutant: the whole folder of the program is on the list, not its Logs
files_and_dirs_to_delete_WholeFolder(home) ==
  << user_appdata_local(home) \o <<"RoboTask">>,
     <<"C:", "ProgramData", "{108738E9}">>,
     user_public_documents(home) \o <<"RoboTask", "ADB4C104.dat">> >>

\* lines 107-111
files_and_dirs_to_delete(home) ==
  << user_appdata_local(home) \o <<"RoboTask", "Logs">>,
     <<"C:", "ProgramData", "{108738E9}">>,
     user_public_documents(home) \o <<"RoboTask", "ADB4C104.dat">> >>

\* line 121
TasksDir(home) == user_appdata_local(home) \o <<"RoboTask", "Tasks">>

\* the user's profile directory
RtHome == <<"C:", "Users", "me">>

\* the directories with all the directories above them
DirsTo(paths) ==
  [q \in UNION {{SubSeq(p, 1, i) : i \in 1..Len(p)} : p \in paths} |-> DirNode]

\* the machine before the run: the task scripts and a neighbour of the .dat
\* file are there; Logs, the ProgramData folder and the .dat file are there
\* or not, in more than one form
RtFiles(logs, guid, dat) ==
  LET paths == << RtHome \o <<"AppData", "Local", "RoboTask", "Logs">>,
                  <<"C:", "ProgramData", "{108738E9}">>,
                  <<"C:", "Users", "Public", "Documents", "RoboTask", "ADB4C104.dat">> >>
      at(p, kind, sub) ==
        IF kind = "dir" THEN (p :> DirNode) @@ (p \o <<sub>> :> DirNode)
                             @@ (p \o <<sub, "a">> :> FileNode(1, 1))
                             @@ (p \o <<"b">> :> FileNode(1, 2))
        ELSE IF kind = "file" THEN (p :> FileNode(1, 3))
        ELSE IF kind = "link" THEN (p :> LinkNode([abs |-> TRUE, segs |-> TasksDir(RtHome)]))
        ELSE <<>>
  IN at(paths[1], logs, "old") @@ at(paths[2], guid, "lic") @@ at(paths[3], dat, "x")
       @@ (TasksDir(RtHome) \o <<"job.tsk">> :> FileNode(1, 4))
       @@ (Parent(paths[3]) \o <<"other.dat">> :> FileNode(1, 5))
       @@ DirsTo({TasksDir(RtHome), Parent(paths[2]), Parent(paths[3])})

\* the keys before the run: the settings of the program under
\* Software\TaskAutomation, and the COM registration in whole, in part or
\* not at all
RtRegistry(com) ==
  LET settings == {<<"Software">>, <<"Software", "TaskAutomation">>,
                   <<"Software", "TaskAutomation", "RoboTask">>,
                   <<"Software", "TaskAutomation", "RoboTask", "Variables">>,
                   <<"Software", "Classes">>, <<"Software", "Classes", "CLSID">>,
                   <<"Software", "Classes", "TypeLib">>}
      keys == hkcu_com_keys_to_delete
  IN IF com = "none" THEN settings
     ELSE IF com = "part"
       THEN settings \cup {keys[2], keys[4], keys[4] \o <<"1.0">>}
     ELSE settings \cup {keys[1], keys[1] \o <<"InprocServer32">>, keys[2], keys[4],
                         keys[4] \o <<"1.0">>, keys[4] \o <<"1.0", "0">>,
                         keys[4] \o <<"1.0", "FLAGS">>, keys[5],
                         keys[5] \o <<"CLSID">>}

\* the last call of delete_registry_key_recursive made by the script: its
\* arguments, the registry it met and what it returned
RtNoCall ==
  [item |-> <<>>, reg |-> {}, denied |-> {}, failing |-> {},
   returned |-> [ok |-> FALSE, reg |-> {}, deleted |-> <<>>, opened |-> 0, closed |-> 0]]

RtInit ==
  /\ MklinkParked
  /\ vscode = VsParked
  /\ chromium = CrParked
  /\ repomix = RmParked
  /\ \E logs \in {"absent", "dir", "file", "link"}, guid \in {"absent", "dir"},
        dat \in {"absent", "file", "dir"}, com \in {"none", "part", "all"} :
       robotask = [pc |-> "idle", i |-> 1, home |-> RtHome,
                   fs |-> RtFiles(logs, guid, dat), fs0 |-> RtFiles(logs, guid, dat),
                   reg |-> RtRegistry(com), reg0 |-> RtRegistry(com),
                   call |-> RtNoCall]

RtFrame == UNCHANGED <<mklink, vscode, chromium, repomix>>

\* lines 81-111
RtStart ==
  /\ robotask.pc = "idle"
  /\ robotask' = [robotask EXCEPT !.pc = "registry", !.i = 1]
  /\ RtFrame

\* lines 114-117: one pass of the loop over the registry keys
RtDeleteKey ==
  /\ robotask.pc = "registry"
  /\ \E item \in {hkcu_com_keys_to_delete[robotask.i]} :
     \E denied \in SUBSET {k \in robotask.reg : IsPrefix(item, k)} :
     \E failing \in SUBSET {k \in robotask.reg \ denied : IsPrefix(item, k)} :
     \E d \in {delete_registry_key_recursive(robotask.reg, item, denied, failing)} :
     \E call \in {[item |-> item, reg |-> robotask.reg, denied |-> denied,
                   failing |-> failing, returned |-> d]} :
       robotask' = IF robotask.i < Len(hkcu_com_keys_to_delete)
                     THEN [robotask EXCEPT !.reg = d.reg, !.call = call, !.i = @ + 1]
                   ELSE [robotask EXCEPT !.reg = d.reg, !.call = call, !.i = 1,
                                         !.pc = "files"]
  /\ RtFrame

\* lines 120-124: one pass of the loop over the paths
RtDeletePath ==
  /\ robotask.pc = "files"
  /\ \E paths \in {files_and_dirs_to_delete(robotask.home)} :
     \E g \in delete_file_or_directory(robotask.fs, paths[robotask.i]) :
       robotask' = IF robotask.i < Len(paths)
                     THEN [robotask EXCEPT !.fs = g, !.i = @ + 1]
                   ELSE [robotask EXCEPT !.fs = g, !.pc = "done"]
  /\ RtFrame

RtNext == RtStart \/ RtDeleteKey \/ RtDeletePath

RtSpec == RtInit /\ [][RtNext]_vars

\* ------------------------------------------------- vocabulary of the claims
Range(sq) == {sq[i] : i \in 1..Len(sq)}
Before(a, b) == \E i, j \in 1..Len(trace) : i < j /\ trace[i] = a /\ trace[j] = b

Finished == pc = "idle" /\ runs > 0
Succeeded == Finished /\ result = "ok"
Disjoint(p, q) == ~IsPrefix(p, q) /\ ~IsPrefix(q, p)

\* the entries below the directory p, by their names relative to p
SubTree(f, p) ==
  [r \in {SubSeq(q, Len(p) + 1, Len(q)) : q \in {x \in DOMAIN f : Under(p, x)}} |-> f[p \o r]]

\* the link at p read as the specification reads it: raw prefix stripped, a
\* relative target resolved against the directory that holds the link
ResolvedLinkTarget(f, p) ==
  LET t == f[Lstat(f, p).path].target
  IN NormSegs((IF t.abs THEN <<>> ELSE Parent(p)) \o t.segs, <<>>)

LinkedTo(f, p, q) == islink(f, p) /\ ResolvedLinkTarget(f, p) = q

\* everything that was at or below the original path when the run started is
\* still there, unchanged
OriginalUntouched ==
  \A q \in DOMAIN fsStart :
     IsPrefix(norm_orig_path, q) => (q \in DOMAIN fs /\ fs[q] = fsStart[q])

OriginalDeleted == "delete" \in Range(trace) \/ "partial_delete" \in Range(trace)
LinkCreated == "link" \in Range(trace)

\* the regular files below p, as pairs of relative name and node
FilesBelow(f, p) ==
  LET r == Stat(f, p)
  IN IF KindOf(f, r) # "dir" THEN {}
     ELSE {<<SubSeq(q, Len(r.path) + 1, Len(q)), f[q]>> :
             q \in {x \in DOMAIN f : Under(r.path, x) /\ f[x].kind = "file"}}

\* ------------------------------------------------------------------- C1
\* C1 (as claimed): after every run, every file the original directory held
\* before the first run is still present below the original path or below
\* the storage path.  Stated for the case the claim singles out: the storage
\* path did not exist before the first run and neither path lies inside the
\* other.
C1_NoDataLoss ==
  (/\ Finished
   /\ LKind(fsFirst, norm_orig_path) = "dir"
   /\ ~lexists(fsFirst, norm_new_storage_path)
   /\ Disjoint(norm_orig_path, norm_new_storage_path))
  => FilesBelow(fsFirst, norm_orig_path)
       \subseteq (FilesBelow(fs, norm_orig_path) \cup FilesBelow(fs, norm_new_storage_path))

\* ------------------------------------------------------------------- C2
\* C2: a run that follows a successful run with the same two paths returns
\* from the already-aligned check: it succeeds and changes nothing.
C2_Idempotent ==
  (runs >= 2 /\ prev_result = "ok")
  => /\ fs = fsStart
     /\ trace = <<>>
     /\ pc \in {"check", "idle"}
     /\ pc = "idle" => result = "ok"

C2_Witness ==
  /\ runs >= 2 /\ prev_result = "ok" /\ Succeeded
  /\ LKind(fsFirst, norm_orig_path) = "dir"
  /\ LinkedTo(fs, norm_orig_path, norm_new_storage_path)

\* ------------------------------------------------------------------- C3
\* C3: once the copy has reported a failed item the run fails; the original
\* is not deleted and no link is created, with or without skip_validation.
C3_HardGate ==
  (failed_files # <<>>)
  => /\ pc \in {"copy_items", "idle"}
     /\ pc = "idle" => result = "TransferError"
     /\ OriginalUntouched
     /\ ~OriginalDeleted /\ ~LinkCreated

C3_Witness ==
  /\ Finished /\ failed_files # <<>> /\ result = "TransferError" /\ req.skip
  /\ LKind(fs, norm_orig_path) = "dir"

\* ------------------------------------------------------------------- C4
\* C4 (as claimed): every deletion of the original is preceded, in the same
\* run, by a copy without failed items and by a passing validation (or a
\* skipped one).  Stated for requests in which neither path lies inside the
\* other.
C4_DeleteOnlyAfterCopy ==
  (OriginalDeleted /\ Disjoint(norm_orig_path, norm_new_storage_path))
  => /\ "copy" \in Range(trace)
     /\ failed_files = <<>>
     /\ ("validated" \in Range(trace) \/ req.skip)

\* C4 (amended): a run that copies the original (the storage path did not
\* exist) deletes it only after a copy without failed items and after a
\* passing or skipped validation, in that order; a run that finds the
\* storage path already there as a directory deletes the original without
\* copying it.
C4_DeleteAfterCopyOrExistingStorage ==
  /\ pc = "delete"
       => \/ /\ perform_data_copy
             /\ failed_files = <<>>
             /\ trace[Len(trace)] = IF req.skip THEN "validation_skipped" ELSE "validated"
             /\ Before("copy", trace[Len(trace)])
             /\ ~req.skip => validate_copy_basic(fs, norm_orig_path, norm_new_storage_path)
          \/ /\ ~perform_data_copy
             /\ "copy" \notin Range(trace)
             /\ isdir(fsStart, norm_new_storage_path)
  /\ OriginalDeleted
       => \/ perform_data_copy /\ Before("copy", "validated") /\ ~req.skip
          \/ perform_data_copy /\ Before("copy", "validation_skipped") /\ req.skip
          \/ ~perform_data_copy /\ isdir(fsStart, norm_new_storage_path)

C4_Witness ==
  /\ Succeeded /\ perform_data_copy /\ ~req.skip
  /\ "delete" \in Range(trace) /\ Before("copy", "validated")

\* ------------------------------------------------------------------- C5
\* C5: a validation mismatch without skip_validation fails the run, the
\* original is not deleted and no link is created; skip_validation removes
\* the validation and nothing else: the copy and its gate still precede the
\* deletion.
C5_ValidationGate ==
  /\ (pc = "delete" /\ perform_data_copy /\ ~req.skip)
       => validate_copy_basic(fs, norm_orig_path, norm_new_storage_path)
  /\ (Finished /\ result = "ValidationMismatch")
       => /\ ~req.skip
          /\ ~validate_copy_basic(fs, norm_orig_path, norm_new_storage_path)
          /\ OriginalUntouched
          /\ ~OriginalDeleted /\ ~LinkCreated
  /\ (req.skip /\ perform_data_copy /\ pc \notin {"idle", "check", "basic", "parents", "storage", "copy", "copy_items", "validate"})
       => /\ Before("copy", "validation_skipped")
          /\ failed_files = <<>>

C5_Witness ==
  /\ Finished /\ result = "ValidationMismatch"
  /\ LKind(fs, norm_orig_path) = "dir"
  /\ isdir(fs, norm_new_storage_path)

\* ------------------------------------------------------------------- C6
\* the files of the original tree that cannot be read, when the run started
UnreadableInOriginal == {q \in unreadable : Under(norm_orig_path, q) /\ q \in DOMAIN fsStart}
SpecialInOriginal ==
  {q \in DOMAIN fsStart : Under(norm_orig_path, q) /\ fsStart[q].kind = "special"}

\* C6: when exactly one file of the original tree, at any depth, cannot be
\* copied, the run fails, the original is untouched, the storage path holds
\* every other item and lacks the failed one, and the failure names the
\* item: failed_files holds the top-level entry it lies in and the logged
\* error names the file itself.  Stated for two paths of which neither lies
\* inside the other: with the storage path inside the original the copier
\* meets its own output, which is a second item that cannot be copied.
C6_PartialCopySafety ==
  (/\ Finished /\ perform_data_copy
   /\ LKind(fsStart, norm_orig_path) = "dir"
   /\ Cardinality(UnreadableInOriginal) = 1
   /\ SpecialInOriginal = {}
   /\ Disjoint(norm_orig_path, norm_new_storage_path))
  => LET u == CHOOSE q \in UnreadableInOriginal : TRUE
         rel(q) == SubSeq(q, Len(norm_orig_path) + 1, Len(q))
     IN /\ result = "TransferError"
        /\ OriginalUntouched
        /\ ~OriginalDeleted /\ ~LinkCreated
        /\ \A q \in DOMAIN fsStart :
             (Under(norm_orig_path, q) /\ q # u)
               => /\ norm_new_storage_path \o rel(q) \in DOMAIN fs
                  /\ fs[norm_new_storage_path \o rel(q)].kind = fsStart[q].kind
                  /\ fs[norm_new_storage_path \o rel(q)].data = fsStart[q].data
        /\ norm_new_storage_path \o rel(u) \notin DOMAIN fs
        /\ Len(failed_files) = 1 /\ IsPrefix(failed_files[1], u)
        /\ \E m \in log : m.level = "error" /\ m.what = "copy" /\ m.names = {u}
        /\ \E m \in log : m.what = "failed_files" /\ m.item = failed_files[1]

C6_Witness ==
  /\ Finished /\ perform_data_copy /\ result = "TransferError"
  /\ LKind(fsStart, norm_orig_path) = "dir"
  /\ \E u \in UnreadableInOriginal :
       /\ UnreadableInOriginal = {u}
       /\ Len(u) > Len(norm_orig_path) + 1
       /\ \E q \in DOMAIN fs : Under(norm_new_storage_path, q) /\ fs[q].kind = "file"

\* ------------------------------------------------------------------- C7
\* C7: when the storage path is a directory with content A and the original
\* path a directory with unrelated content B (neither path inside the
\* other), a successful run leaves exactly A at the storage path and a link
\* to the storage path at the original path.
C7_DataPriority ==
  (/\ Succeeded
   /\ LKind(fsStart, norm_orig_path) = "dir"
   /\ LKind(fsStart, norm_new_storage_path) = "dir"
   /\ Disjoint(norm_orig_path, norm_new_storage_path))
  => /\ LKind(fs, norm_new_storage_path) = "dir"
     /\ SubTree(fs, norm_new_storage_path) = SubTree(fsStart, norm_new_storage_path)
     /\ LinkedTo(fs, norm_orig_path, norm_new_storage_path)

C7_Witness ==
  /\ Succeeded
  /\ LKind(fsStart, norm_orig_path) = "dir"
  /\ LKind(fsStart, norm_new_storage_path) = "dir"
  /\ Disjoint(norm_orig_path, norm_new_storage_path)
  /\ DOMAIN SubTree(fsStart, norm_orig_path) # {}
  /\ DOMAIN SubTree(fsStart, norm_new_storage_path) # {}
  /\ SubTree(fsStart, norm_orig_path) # SubTree(fsStart, norm_new_storage_path)
  /\ "delete" \in Range(trace)

\* ------------------------------------------------------------------- C8
\* C8 (as claimed): when the storage path does not exist and the original
\* path is a directory with content C, a successful run leaves a directory
\* with exactly C at the storage path and a link to it at the original
\* path.  Stated for runs that validate the copy and for requests in which
\* neither path lies inside the other.
C8_MoveAdopt ==
  (/\ Succeeded /\ ~req.skip
   /\ LKind(fsStart, norm_orig_path) = "dir"
   /\ ~lexists(fsStart, norm_new_storage_path)
   /\ Disjoint(norm_orig_path, norm_new_storage_path))
  => /\ LKind(fs, norm_new_storage_path) = "dir"
     /\ SubTree(fs, norm_new_storage_path) = SubTree(fsStart, norm_orig_path)
     /\ LinkedTo(fs, norm_orig_path, norm_new_storage_path)

\* ------------------------------------------------------------------- C9
\* C9 (as claimed): at a successful return the original path is a link that
\* resolves to the storage path and the storage path is a directory.
\* Stated for the runs that created the link themselves.
C9_SuccessMeansConverged ==
  (Succeeded /\ LinkCreated)
  => /\ LinkedTo(fs, norm_orig_path, norm_new_storage_path)
     /\ isdir(fs, norm_new_storage_path)

\* ------------------------------------------------------------------ C10
\* C10 (as claimed): after every successful run the link at the original
\* path, read with raw prefixes stripped and a relative target resolved
\* against the directory of the link, is exactly the normalized storage path.
C10_LinkCorrect ==
  Succeeded => LinkedTo(fs, norm_orig_path, norm_new_storage_path)

\* ------------------------------------------------------------------ C11
\* the run entered migrate_and_link_directory (the command line did not stop
\* it at its own elevation check)
Entered == runs > 0 /\ result # "NotElevated"

\* C11 (as claimed): when the original path is a link whose stored target,
\* a relative one resolved against the directory of the link, is the
\* normalized storage path, the run returns success at once and changes
\* nothing in the filesystem.
C11_AlreadyAligned ==
  (Entered /\ LinkedTo(fsStart, norm_orig_path, norm_new_storage_path))
  => /\ pc \in {"check", "idle"}
     /\ fs = fsStart
     /\ pc = "idle" => result = "ok"

\* ------------------------------------------------------------------ C12
\* the original path was, when the run started, a link with an absolute
\* target other than the storage path
StaleLinkAtStart ==
  /\ islink(fsStart, norm_orig_path)
  /\ fsStart[Lstat(fsStart, norm_orig_path).path].target.abs
  /\ ~LinkedTo(fsStart, norm_orig_path, norm_new_storage_path)

\* what the link at the original path pointed to when the run started is
\* still there, unchanged
OldPointeeUntouched ==
  LET t == ResolvedLinkTarget(fsStart, norm_orig_path)
  IN \A q \in DOMAIN fsStart : IsPrefix(t, q) => (q \in DOMAIN fs /\ fs[q] = fsStart[q])

\* C12 (as claimed): when the original path is a link that points elsewhere
\* (to a directory, to a file or to nothing), the run replaces it: it
\* succeeds, the original path is a link to the storage path, and what the
\* old link pointed to is unchanged.  Stated where nothing else stops the
\* run: no elevation is needed, neither path lies inside the other, the
\* storage path is a directory or absent, the platform call that creates
\* the link does not fail.
C12_StaleLinkReplaced ==
  (/\ Finished /\ Entered /\ StaleLinkAtStart
   /\ env.platform = "posix"
   /\ Disjoint(norm_orig_path, norm_new_storage_path)
   /\ LKind(fsStart, norm_new_storage_path) \in {"none", "dir"}
   /\ result # "LinkError")
  => /\ result = "ok"
     /\ LinkedTo(fs, norm_orig_path, norm_new_storage_path)
     /\ OldPointeeUntouched

\* ------------------------------------------------------------------ C13
\* C13 (as claimed): when the storage path exists and is not a directory,
\* the run fails with the conflict error and the filesystem after the run,
\* parent directories included, is the filesystem before it.  Stated where
\* no earlier check ends the run: the original path is not a link, the two
\* paths differ, no elevation is needed.
C13_ConflictRejected ==
  (/\ Finished /\ Entered
   /\ LKind(fsStart, norm_new_storage_path) = "file"
   /\ ~islink(fsStart, norm_orig_path)
   /\ norm_orig_path # norm_new_storage_path
   /\ env.platform = "posix")
  => /\ result = "FileExistsError"
     /\ fs = fsStart

\* ------------------------------------------------------------------ C14
\* C14 (as claimed): when the normalized original path equals the
\* normalized storage path the run fails, whatever the filesystem holds,
\* and nothing has been changed.
C14_SamePathRejected ==
  (Finished /\ norm_orig_path = norm_new_storage_path)
  => /\ result # "ok"
     /\ fs = fsStart

\* ------------------------------------------------------------------ C15
\* C15 (as claimed): on a platform that needs elevation to create links,
\* every call of migrate_and_link_directory by a process that is not
\* elevated ends in the permission error, whatever the filesystem holds,
\* and changes nothing.  Stated for requests in which neither path lies
\* inside the other.
C15_PermissionPrecondition ==
  (/\ Finished /\ Entered
   /\ Windows /\ ~env.admin
   /\ Disjoint(norm_orig_path, norm_new_storage_path))
  => /\ result = "PermissionError"
     /\ fs = fsStart

\* ------------------------------------------------------------------ C16
NeitherExistedAtStart ==
  /\ ~lexists(fsStart, norm_orig_path)
  /\ ~lexists(fsStart, norm_new_storage_path)
  /\ Disjoint(norm_orig_path, norm_new_storage_path)

CopyReturned == pc = "copy_items" /\ pending = {}

\* C17 (as claimed): after copy_directory_contents_robust every symbolic
\* link of the source tree, at the top level or nested, whatever it points
\* to, is at the destination a symbolic link with the same stored target.
\* Stated for a copy without failed items and for requests in which neither
\* path lies inside the other.
C17_LinksPreserved ==
  (/\ CopyReturned /\ failed_files = <<>>
   /\ LKind(fsStart, norm_orig_path) = "dir"
   /\ Disjoint(norm_orig_path, norm_new_storage_path))
  => \A q \in DOMAIN fsStart :
        (Under(norm_orig_path, q) /\ fsStart[q].kind = "link")
          => LET d == norm_new_storage_path \o SubSeq(q, Len(norm_orig_path) + 1, Len(q))
             IN /\ d \in DOMAIN fs
                /\ fs[d].kind = "link"
                /\ fs[d].target = fsStart[q].target

\* ------------------------------------------------------------------ C18
\* the entry named n of the original directory is at the destination with
\* everything below it (a link may have been copied as what it points to)
ItemCopied(n) ==
  \A q \in DOMAIN fsStart :
     IsPrefix(Append(norm_orig_path, n), q)
       => LET d == norm_new_storage_path \o SubSeq(q, Len(norm_orig_path) + 1, Len(q))
          IN /\ d \in DOMAIN fs
             /\ fsStart[q].kind # "link"
                  => (fs[d].kind = fsStart[q].kind /\ fs[d].data = fsStart[q].data)

\* C18: a failing entry does not end copy_directory_contents_robust: the
\* loop goes on to the end and returns; the entries that did not fail are
\* all copied, and the returned list holds, once each, exactly the paths of
\* the entries that were not copied.  Stated for a source without special
\* files at its top level (they are skipped, not failed) and for requests
\* in which neither path lies inside the other.
C18_ContinuePastFailure ==
  /\ (pc = "copy_items" /\ failed_files # <<>>) => result = "none"
  /\ (/\ CopyReturned
      /\ LKind(fsStart, norm_orig_path) = "dir"
      /\ \A q \in SpecialInOriginal : Len(q) > Len(norm_orig_path) + 1
      /\ Disjoint(norm_orig_path, norm_new_storage_path))
     => /\ \A n \in ListDir(fsStart, norm_orig_path) :
             ItemCopied(n) <=> Append(norm_orig_path, n) \notin Range(failed_files)
        /\ Range(failed_files) \subseteq
             {Append(norm_orig_path, n) : n \in ListDir(fsStart, norm_orig_path)}
        /\ Cardinality(Range(failed_files)) = Len(failed_files)

C18_Witness ==
  /\ CopyReturned /\ Len(failed_files) = 1
  /\ Disjoint(norm_orig_path, norm_new_storage_path)
  /\ \E n \in ListDir(fsStart, norm_orig_path) :
       /\ Append(norm_orig_path, n) \notin Range(failed_files)
       /\ ItemCopied(n)

\* ------------------------------------------------------------------ C19
\* C19: when the creation of the link fails after the original directory
\* was deleted, the run ends in failure, the storage path keeps exactly what
\* it held, nothing is put back at the original path, and a critical
\* message is logged.  Stated for requests in which neither path lies
\* inside the other.
C19_NoRollback ==
  [][(/\ pc = "link" /\ pc' = "idle" /\ result' # "ok"
      /\ "delete" \in Range(trace)
      /\ Disjoint(norm_orig_path, norm_new_storage_path))
     => /\ result' = "LinkError"
        /\ exit_code' # 0
        /\ LKind(fs', norm_new_storage_path) = LKind(fs, norm_new_storage_path)
        /\ SubTree(fs', norm_new_storage_path) = SubTree(fs, norm_new_storage_path)
        /\ ~lexists(fs', norm_orig_path)
        /\ \E m \in log' : m.level = "critical" /\ m.item = norm_orig_path]_vars

C19_Witness ==
  /\ Finished /\ result = "LinkError"
  /\ "delete" \in Range(trace) /\ Before("copy", "delete")
  /\ Disjoint(norm_orig_path, norm_new_storage_path)
  /\ ~lexists(fs, norm_orig_path)
  /\ DOMAIN SubTree(fs, norm_new_storage_path) # {}

\* ------------------------------------------------------------------ C20
\* C20: the command line exits with code 0 exactly when
\* migrate_and_link_directory returned normally, and with code 1 after the
\* failed elevation check and after every exception of the function; a
\* direct call has no exit code.
C20_ExitCode ==
  /\ (Finished /\ caller = "main")
       => /\ exit_code \in {0, 1}
          /\ exit_code = 0 <=> result = "ok"
  /\ (caller = "api" \/ ~Finished) => exit_code = -1

C20_Witness ==
  /\ Finished /\ caller = "main" /\ runs = 2
  /\ prev_result \notin {"ok", "none"}
  /\ exit_code = 0 /\ LinkCreated

\* ------------------------------------------------------------------ C21
\* the steps of one call of migrate_and_link_directory: the code runs them
\* one after the other, nothing waits
RunStep ==
  \/ CheckAlreadyAligned
  \/ BasicValidation
  \/ PrepareParents
  \/ CheckStoragePath
  \/ CopyBegin
  \/ CopyItemStep
  \/ CopyEnd
  \/ ValidateCopy
  \/ DeleteOriginal
  \/ EnsureStorage
  \/ EnsureLinkParent
  \/ CreateLink
  \/ ValidateLink

\* the runs the termination is checked on: a storage path apart from the live
\* path, one directly inside it and one two levels inside it, called on
\* POSIX and from the command line on Windows with and without elevation
FairRequests ==
  { [orig |-> AbsStr(L), new |-> AbsStr(S)],
    [orig |-> RelStr(<<"..", "h", "l">>), new |-> AbsStr(<<"h", "l", ".", "s">>)],
    [orig |-> AbsStr(L), new |-> AbsStr(L \o <<"d", "s">>)] }
FairSetups == { <<PosixEnv, "api">>, <<WinEnv(TRUE), "main">>, <<WinEnv(FALSE), "main">> }
FairInit ==
  /\ Init
  /\ <<env, caller>> \in FairSetups
  /\ [orig |-> req.orig, new |-> req.new] \in FairRequests
FairSpec == FairInit /\ [][Next]_vars /\ WF_vars(RunStep)

\* C21: every call of migrate_and_link_directory comes to an end, with a
\* return or with an exception, also when the storage path lies inside the
\* original path.
C21_Terminates == (pc # "idle") ~> (pc = "idle" /\ result # "none")

C21_Witness ==
  /\ Finished /\ result = "TransferError"
  /\ Under(norm_orig_path, norm_new_storage_path)
  /\ Len(norm_new_storage_path) = Len(norm_orig_path) + 2
  /\ \E q \in DOMAIN fs : Len(q) >= Len(norm_new_storage_path) + RecursionLimit

\* C22: the updater starts the download only after wait_for_exit has made a
\* pass over the processes that came to its end and met no process named
\* 'Code - Insiders.exe'.
C22_UpdateAfterExit == vscode.pc = "download" => vscode.scan = "clear"

\* C23: when last_version.txt holds the latest version identifier the updater
\* does not wait for the editor, downloads nothing, leaves the installed files
\* as they were and ends with exit code 0; and when a run has updated and come
\* to the end of main, last_version.txt holds the version it installed.
C23_NoRepeatedUpdate ==
  /\ (/\ vscode.pc \in {"wait_scan", "wait_check", "download", "record", "done", "exited"}
      /\ vscode.latest_ver # <<>>
      /\ vscode.recorded0 = TextFile(vscode.latest_ver))
       => /\ ~vscode.waited /\ ~vscode.downloaded
          /\ vscode.installed = vscode.installed0
          /\ vscode.pc = "exited" /\ vscode.exit_code = 0
  /\ vscode.pc = "done"
       => /\ vscode.installed = Installed(vscode.latest_ver)
          /\ vscode.version_file.there
          /\ Strip(vscode.version_file.text) = vscode.installed.ver

\* C24: the reset removes nothing but the Logs directory, the ProgramData
\* folder and the .dat file (with what they hold): every other file and
\* directory stays as it was, the Tasks directory and the directories above
\* it among them, and so does every key under Software\TaskAutomation.
C24_TasksPreserved ==
  robotask.pc # "parked" =>
    LET home == robotask.home
        listed == { home \o <<"AppData", "Local", "RoboTask", "Logs">>,
                    <<"C:", "ProgramData", "{108738E9}">>,
                    Parent(home) \o <<"Public", "Documents", "RoboTask", "ADB4C104.dat">> }
        tasks == home \o <<"AppData", "Local", "RoboTask", "Tasks">>
    IN /\ \A q \in DOMAIN robotask.fs0 :
            (\A p \in listed : ~IsPrefix(p, q))
              => q \in DOMAIN robotask.fs /\ robotask.fs[q] = robotask.fs0[q]
       /\ \A i \in 1..Len(tasks) : isdir(robotask.fs, SubSeq(tasks, 1, i))
       /\ \A k \in robotask.reg0 :
            IsPrefix(<<"Software", "TaskAutomation">>, k) => k \in robotask.reg

C24_Witness ==
  /\ robotask.pc = "done"
  /\ isdir(robotask.fs0, robotask.home \o <<"AppData", "Local", "RoboTask", "Logs">>)
  /\ ~lexists(robotask.fs, robotask.home \o <<"AppData", "Local", "RoboTask", "Logs">>)
  /\ ~lexists(robotask.fs, <<"C:", "ProgramData", "{108738E9}">>)
  /\ robotask.reg # robotask.reg0
  /\ isfile(robotask.fs, robotask.home \o <<"AppData", "Local", "RoboTask", "Tasks", "job.tsk">>)

\* ------------------------------------------------------------------ C25
\* the entries a descent from dir meets: every entry of a directory, and the
\* entries of those that are directories themselves; a link is met but not
\* descended into
RECURSIVE EntriesIn(_, _)
EntriesIn(f, dir) ==
  LET here == {Append(dir, n) : n \in ListDir(f, dir)}
  IN here \cup UNION {EntriesIn(f, q) : q \in {h \in here : LKind(f, h) = "dir"}}

RECURSIVE SumFn(_)
SumFn(fn) ==
  IF DOMAIN fn = {} THEN 0
  ELSE LET x == CHOOSE y \in DOMAIN fn : TRUE
       IN fn[x] + SumFn([y \in DOMAIN fn \ {x} |-> fn[y]])

ItemCount(f, dir) == Cardinality(EntriesIn(f, dir))

\* the bytes of the entries that are not directories, as a read of the entry
\* gives them; an entry that cannot be read gives none
ByteSize(f, dir) ==
  SumFn([q \in {e \in EntriesIn(f, dir) : ~isdir(f, e)} |->
           IF Stat(f, q).ok THEN f[Stat(f, q).path].size ELSE 0])

\* C25: a call of validate_copy_basic always returns, and it returns True
\* exactly when the number of entries at every depth and the total of the
\* bytes are the same below the source and below the destination; an entry
\* whose size cannot be read adds nothing.
C25_ValidateTotals ==
  pc = "validated"
  => /\ result \in {"True", "False"}
     /\ result = "True"
          <=> /\ ItemCount(fs, norm_orig_path) = ItemCount(fs, norm_new_storage_path)
              /\ ByteSize(fs, norm_orig_path) = ByteSize(fs, norm_new_storage_path)

\* a copy of a tree with a dangling link has been validated and passed
C25_Witness ==
  /\ pc = "validated" /\ result = "True" /\ "copy" \in Range(trace)
  /\ \E q \in EntriesIn(fs, norm_orig_path) : ~Stat(fs, q).ok
  /\ ByteSize(fs, norm_orig_path) > 0

\* ------------------------------------------------------------------ C26
\* the bytes of the entries themselves: a file gives its size, a link the
\* size of the link
OwnSize(f, dir) ==
  SumFn([q \in EntriesIn(f, dir) |->
           IF f[Lstat(f, q).path].kind \in {"file", "link"}
             THEN f[Lstat(f, q).path].size ELSE 0])

\* C26 (as claimed): the totals validate_copy_basic computes and logs count
\* a symbolic link as one item with the size of the link itself, never the
\* size of what it points to, and nothing below a linked directory.
C26_LinksNotFollowed ==
  pc = "validated"
  => \A m \in log :
       m.what = "validation"
         => /\ m.source = [count |-> ItemCount(fs, norm_orig_path),
                           size |-> OwnSize(fs, norm_orig_path)]
            /\ m.dest = [count |-> ItemCount(fs, norm_new_storage_path),
                         size |-> OwnSize(fs, norm_new_storage_path)]

\* ------------------------------------------------------------------ C27
\* C27: when copy_directory_contents_robust returns, an entry of the source
\* directory that is neither a directory, a file nor a link has not been
\* created at the destination (what the destination held under its name is
\* as it was) and is not in the returned list.
C27_UnsupportedSkipped ==
  pc = "returned"
  => \A n \in ListDir(fs, norm_orig_path) :
       LKind(fs, Append(norm_orig_path, n)) = "special"
         => /\ Append(norm_orig_path, n) \notin Range(failed_files)
            /\ Append(norm_new_storage_path, n) \in DOMAIN fs
                 <=> Append(norm_new_storage_path, n) \in DOMAIN fsStart
            /\ Append(norm_new_storage_path, n) \in DOMAIN fs
                 => fs[Append(norm_new_storage_path, n)]
                      = fsStart[Append(norm_new_storage_path, n)]

\* the copier returned an empty list; it copied the file f and left the
\* special entry p out
C27_Witness ==
  /\ pc = "returned" /\ failed_files = <<>>
  /\ LKind(fs, Append(norm_orig_path, "p")) = "special"
  /\ Append(norm_new_storage_path, "p") \notin DOMAIN fs
  /\ LKind(fs, Append(norm_new_storage_path, "f")) = "file"
  /\ \E m \in log : m.what = "unsupported" /\ m.item = Append(norm_orig_path, "p")

\* ------------------------------------------------------------------ C28
\* C28 (as claimed): when a run that copied is about to delete the original
\* directory, every entry below the original path is present under the same
\* relative name below the storage path.  Stated for two paths of which
\* neither lies inside the other.
C28_AllPresentAtDeletion ==
  (pc = "delete" /\ perform_data_copy /\ Disjoint(norm_orig_path, norm_new_storage_path))
  => \A q \in DOMAIN fs :
       Under(norm_orig_path, q)
         => norm_new_storage_path \o SubSeq(q, Len(norm_orig_path) + 1, Len(q))
              \in DOMAIN fs

\* ------------------------------------------------------------------ C29
Nested(p, q) == p # q /\ (IsPrefix(p, q) \/ IsPrefix(q, p))

\* C29 (as claimed): a run on two different paths of which one lies inside
\* the other either fails with nothing deleted, or ends with every file
\* that was below the storage path before the run (below the original path
\* when the storage path did not exist) still below the storage path.
C29_NestedPathsKeepData ==
  (Finished /\ Nested(norm_orig_path, norm_new_storage_path))
  => \/ /\ result # "ok"
        /\ \A q \in DOMAIN fsStart : q \in DOMAIN fs
     \/ FilesBelow(fsStart, IF exists(fsStart, norm_new_storage_path)
                              THEN norm_new_storage_path ELSE norm_orig_path)
          \subseteq FilesBelow(fs, norm_new_storage_path)

\* ------------------------------------------------------------------ C30
\* C30 (as claimed): when copy_directory_contents_robust returns, every
\* directory and every file of the source directory that is not in the
\* returned list is at the destination under its name, as a directory or as
\* a file like in the source, whatever the destination held under that name
\* before.
C30_ConflictsCleared ==
  pc = "returned"
  => \A n \in ListDir(fs, norm_orig_path) :
       (/\ LKind(fs, Append(norm_orig_path, n)) \in {"dir", "file"}
        /\ Append(norm_orig_path, n) \notin Range(failed_files))
         => LKind(fs, Append(norm_new_storage_path, n))
              = LKind(fs, Append(norm_orig_path, n))

\* ------------------------------------------------------------------ C31
\* the step in which the deletion of the original fails (lines 270-279)
DeleteFails == pc = "delete" /\ pc' = "idle"

\* C31 (as claimed): when the deletion of the original directory fails, or
\* the directory is still there after it, the run ends at once with an
\* error: no link is made at the original path, and everything below the
\* storage path is as it was before the deletion.
C31_DeleteFailureStops ==
  [][DeleteFails
       => /\ result' = "DeleteError"
          /\ "link" \notin Range(trace')
          /\ LKind(fs', norm_orig_path) # "link" \/ LKind(fs, norm_orig_path) = "link"
          /\ isdir(fs', norm_new_storage_path) = isdir(fs, norm_new_storage_path)
          /\ SubTree(fs', norm_new_storage_path) = SubTree(fs, norm_new_storage_path)]_vars

\* the same, for two paths of which neither lies inside the other
C31_DeleteFailureStopsDisjoint ==
  [][(DeleteFails /\ Disjoint(norm_orig_path, norm_new_storage_path))
       => /\ result' = "DeleteError"
          /\ "link" \notin Range(trace')
          /\ LKind(fs', norm_orig_path) # "link" \/ LKind(fs, norm_orig_path) = "link"
          /\ isdir(fs', norm_new_storage_path) = isdir(fs, norm_new_storage_path)
          /\ SubTree(fs', norm_new_storage_path) = SubTree(fs, norm_new_storage_path)]_vars

\* ------------------------------------------------------------------ C32
FileAtLive ==
  /\ runs > 0
  /\ LKind(fsStart, norm_orig_path) = "file"
  /\ LKind(fsStart, norm_new_storage_path) \in {"dir", "none"}

\* the file at the original path is gone, the storage path is a directory
\* with what it held before (nothing when it was missing), and the run ended
\* in success with the original path a link to the storage path
FileReplacedByLink ==
  /\ result = "ok"
  /\ LinkedTo(fs, norm_orig_path, norm_new_storage_path)
  /\ LKind(fs, norm_new_storage_path) = "dir"
  /\ \A q \in DOMAIN fs \cup DOMAIN fsStart :
       (Under(norm_new_storage_path, q) /\ ~IsPrefix(norm_orig_path, q))
         => q \in DOMAIN fs /\ q \in DOMAIN fsStart /\ fs[q] = fsStart[q]

\* C32 (as claimed): a run on an original path that is a regular file and a
\* storage path that is a directory or missing removes the file, makes the
\* storage directory when it was missing, and ends in success with the
\* original path a link to the storage path.  Stated for the runs that are
\* elevated where the platform asks for it and whose link the platform does
\* not refuse, and for a storage path that does not lie inside the original
\* path (no directory can be made below a regular file).
C32_FileCleared ==
  (/\ Finished /\ FileAtLive /\ ~(Windows /\ ~env.admin) /\ result # "LinkError"
   /\ ~IsPrefix(norm_orig_path, norm_new_storage_path))
  => FileReplacedByLink

\* the same where os.readlink gives the target back as it was stored
C32_FileClearedPosix ==
  (/\ Finished /\ FileAtLive /\ env.platform = "posix" /\ result # "LinkError"
   /\ ~IsPrefix(norm_orig_path, norm_new_storage_path))
  => FileReplacedByLink

\* ------------------------------------------------------------------ C33
\* C33: when the run is about to create the link, the parent of the
\* original path is a directory, made by the run when it was missing; and
\* the run makes no directory (it changes nothing at all) before the two
\* paths were found different and the elevation found sufficient.
C33_ParentsBeforeLink ==
  /\ pc = "link" => isdir(fs, Parent(norm_orig_path))
  /\ pc \in {"check", "basic"} => fs = fsStart
  /\ (runs > 0 /\ fs # fsStart)
       => /\ norm_orig_path # norm_new_storage_path
          /\ ~(Windows /\ ~env.admin)
  /\ (Finished /\ result \in {"ValueError", "PermissionError", "NotElevated"})
       => fs = fsStart

\* the link is about to be made below a parent that was missing and that the
\* run has made
C33_Witness ==
  /\ pc = "link"
  /\ ~exists(fsStart, Parent(norm_orig_path))
  /\ isdir(fs, Parent(norm_orig_path))
  /\ "mkparents" \in Range(trace)

\* ------------------------------------------------------------------ C34
\* C34 (as claimed): last_version.txt is written only in a run whose
\* download_extract returned without an exception; a run whose
\* download_extract raised ends with exit code 1 and the recorded version as
\* it was, and the run after it does not take the installation for up to
\* date.
C34_RecordAfterSuccess ==
  /\ vscode.version_file # vscode.recorded0 => (vscode.downloaded /\ ~vscode.raised)
  /\ vscode.raised
       => /\ vscode.pc = "exited" /\ vscode.exit_code = 1
          /\ vscode.version_file = vscode.recorded0
  /\ (vscode.prev_failed /\ vscode.latest_ver = vscode.prev_latest)
       => ~(vscode.pc = "exited" /\ vscode.exit_arg = 0)

\* the same with the argument of sys.exit in the place of the exit code of
\* the process
C34_RecordAfterSuccessExitArg ==
  /\ vscode.version_file # vscode.recorded0 => (vscode.downloaded /\ ~vscode.raised)
  /\ vscode.raised
       => /\ vscode.pc = "exited" /\ vscode.exit_arg = 1
          /\ vscode.version_file = vscode.recorded0
  /\ (vscode.prev_failed /\ vscode.latest_ver = vscode.prev_latest)
       => ~(vscode.pc = "exited" /\ vscode.exit_arg = 0)

\* ------------------------------------------------------------------ C35
\* C35 (as claimed): whenever no run is under way and last_version.txt
\* records a version, the files of the editor in the installation directory
\* are all of that version.  Stated for behaviours that start with a
\* record that fits the installed files, with a last_version.txt that can be
\* read and written and temporary files that can be removed.
C35_RecordFitsInstalled ==
  (/\ vscode.start_ok
   /\ vscode.readable /\ vscode.writable
   /\ ~vscode.zip_left /\ ~vscode.dir_left
   /\ vscode.pc \in {"exited", "done"}
   /\ vscode.version_file.there
   /\ Strip(vscode.version_file.text) # <<>>)
  => vscode.installed = Installed(Strip(vscode.version_file.text))

\* ------------------------------------------------------------------ C36
\* download_extract has been left
LeftDownloadExtract == vscode.downloaded /\ vscode.pc \in {"record", "exited", "done"}

Ord(c) ==
  IF c = "-" THEN 45 ELSE IF c = "." THEN 46
  ELSE CHOOSE n \in 48..57 : <<"0", "1", "2", "3", "4", "5", "6", "7", "8", "9">>[n - 47] = c

IsDigit(c) == c \notin {"-", "."}

\* str <= str of Python: character by character, a prefix is smaller
RECURSIVE StrLeq(_, _)
StrLeq(a, b) ==
  IF a = <<>> THEN TRUE
  ELSE IF b = <<>> THEN FALSE
  ELSE IF Head(a) # Head(b) THEN Ord(Head(a)) < Ord(Head(b))
  ELSE StrLeq(Tail(a), Tail(b))

\* tuple <= tuple of Python on tuples of integers
RECURSIVE TupleLeq(_, _)
TupleLeq(a, b) ==
  IF a = <<>> THEN TRUE
  ELSE IF b = <<>> THEN FALSE
  ELSE IF Head(a) # Head(b) THEN Head(a) < Head(b)
  ELSE TupleLeq(Tail(a), Tail(b))

\* s.split(sep)
RECURSIVE Split(_, _)
Split(s, sep) ==
  IF \A i \in 1..Len(s) : s[i] # sep THEN <<s>>
  ELSE LET i == CHOOSE j \in 1..Len(s) : s[j] = sep /\ \A k \in 1..(j - 1) : s[k] # sep
       IN <<SubSeq(s, 1, i - 1)>> \o Split(SubSeq(s, i + 1, Len(s)), sep)

\* int(s) of a string of digits
RECURSIVE ToInt(_)
ToInt(s) ==
  IF s = <<>> THEN 0 ELSE 10 * ToInt(SubSeq(s, 1, Len(s) - 1)) + (Ord(s[Len(s)]) - 48)

IsNumber(s) == s # <<>> /\ \A i \in 1..Len(s) : IsDigit(s[i])

\* a dotted string of numbers, and its numbers
IsDotted(s) == \A i \in 1..Len(Split(s, ".")) : IsNumber(Split(s, ".")[i])
Numbers(s) == [i \in 1..Len(Split(s, ".")) |-> ToInt(Split(s, ".")[i])]

\* a tuple without its trailing zeros
RECURSIVE StripZeros(_)
StripZeros(t) ==
  IF t # <<>> /\ t[Len(t)] = 0 THEN StripZeros(SubSeq(t, 1, Len(t) - 1)) ELSE t

\* lines 48-76.  packaging.version.parse on a string  release[-post]: the
\* release is dotted numbers and the post-release one number (PEP 440); a
\* string such as 138.0.7204.183-1.1 is not a version of PEP 440.  With
\* packaging before 22 (legacy) parse returns a LegacyVersion for it, whose
\* key is the parts as numbers, "-" as a part smaller than every number;
\* from packaging 22 on parse raises InvalidVersion, the import of lines
\* 22-25 left LegacyVersion as None, and the function returns None.
robust_parse_version(version_string, legacy) ==
  LET halves == Split(version_string, "-")
  IN IF \E i \in 1..Len(halves) : ~IsDotted(halves[i]) THEN None
     ELSE IF Len(halves) = 1
       THEN [kind |-> "Version", key |-> <<StripZeros(Numbers(halves[1])), <<>>>>]
     ELSE IF Len(halves) = 2 /\ Len(Numbers(halves[2])) = 1
       THEN [kind |-> "Version",
             key |-> <<StripZeros(Numbers(halves[1])), Numbers(halves[2])>>]
     ELSE IF legacy /\ Len(halves) = 2
       THEN [kind |-> "LegacyVersion",
             key |-> StripZeros(Numbers(halves[1])) \o <<-1>>
                       \o StripZeros(Numbers(halves[2]))]
     ELSE None

\* parsed_a <= parsed_b: a LegacyVersion is smaller than every Version
ParsedLeq(a, b) ==
  IF a.kind # b.kind THEN a.kind = "LegacyVersion"
  ELSE IF a.kind = "LegacyVersion" THEN TupleLeq(a.key, b.key)
  ELSE IF a.key[1] # b.key[1] THEN TupleLeq(a.key[1], b.key[1])
  ELSE TupleLeq(a.key[2], b.key[2])

\* lines 79-238: the newest of the versions listed on the release page and
\* the download link of its detail page.  listed: the entries that pass the
\* pattern of line 105 (the empty set also when the page cannot be fetched);
\* link: the detail page is served and names the windows_x64.zip
get_latest_available_version_and_download_url(listed, link, legacy) ==
  LET valid == {v \in listed : robust_parse_version(v, legacy) # None}
      url == IF link THEN Some(<<"z", "i", "p">>) ELSE None
  IN IF listed = {} THEN <<None, None>>
     ELSE IF valid = {}
       THEN <<Some(CHOOSE v \in listed : \A w \in listed : StrLeq(w, v)), url>>
     ELSE <<Some(CHOOSE v \in valid : \A w \in valid :
                   ParsedLeq(robust_parse_version(w, legacy),
                             robust_parse_version(v, legacy))),
            url>>

\* lines 381-401: the script takes the installation for up to date
UpToDate(latest_version_online, current_local_version, legacy) ==
  LET parsed_latest == robust_parse_version(latest_version_online, legacy)
      parsed_current == robust_parse_version(current_local_version, legacy)
  IN IF parsed_latest # None /\ parsed_current # None
       THEN ParsedLeq(parsed_latest, parsed_current)
       ELSE StrLeq(latest_version_online, current_local_version)

\* a version string of the release page: major.0.0.0-rev
CrVersion(major, rev) == major \o <<".", "0", ".", "0", ".", "0", "-">> \o rev

\* the versions of the model: 9 and 10, as revision 1 (a version of PEP 440)
\* and as revision 1.1 (the form of the Windows builds, not of PEP 440)
CrVersions ==
  { CrVersion(major, rev) : major \in {<<"9">>, <<"1", "0">>},
                            rev \in {<<"1">>, <<"1", ".", "1">>} }

\* the release page lists at most two versions
CrListings == {l \in SUBSET CrVersions : Cardinality(l) <= 2}

\* app: what the directory app holds ("absent": no directory, "old": the
\* files of the start, "part": some files deleted or some files of the new
\* version, "new": the files of the version just extracted);
\* version_file: the stripped text of app/ungoogled_chromium_version.txt;
\* temp: the directory updater_temp exists; legacy: packaging is older than 22
CrInit ==
  /\ MklinkParked
  /\ vscode = VsParked
  /\ robotask = RtParked
  /\ repomix = RmParked
  /\ \E legacy \in BOOLEAN, listed \in CrListings, link \in BOOLEAN,
        app \in {"absent", "old"}, vf \in {None} \cup {Some(v) : v \in CrVersions},
        temp \in BOOLEAN :
       /\ app = "absent" => vf = None
       /\ chromium = [pc |-> "idle", legacy |-> legacy, listed |-> listed,
                      link |-> link, app |-> app, app0 |-> app,
                      version_file |-> vf, version_file0 |-> vf,
                      temp |-> temp, temp0 |-> temp, prepared |-> FALSE,
                      latest_version_online |-> None, download_url |-> None,
                      current_local_version |-> None, compared |-> FALSE,
                      returned |-> "none", written |-> FALSE, outcome |-> "none",
                      rm_ok |-> TRUE, exit |-> "none"]

CrFrame == UNCHANGED <<mklink, vscode, robotask, repomix>>

\* lines 427-431: main is left from inside the try statement, by sys.exit
\* ("0", "1"), by an exception or by reaching the end ("return"); the finally
\* clause removes updater_temp with ignore_errors=True, so a removal that
\* fails (rm_ok FALSE) leaves the directory and is not reported
CrLeave(c, how, rm_ok) ==
  [c EXCEPT !.pc = "exited", !.exit = how, !.rm_ok = rm_ok, !.temp = @ /\ ~rm_ok]

\* lines 367-369: an updater_temp left by an earlier run is removed, without
\* ignore_errors, and the directory is made; both can raise, before the try
\* statement is entered
CrPrepare ==
  /\ chromium.pc = "idle"
  /\ \E removed \in BOOLEAN, made \in BOOLEAN :
       chromium' =
         IF chromium.temp /\ ~removed
           THEN [chromium EXCEPT !.pc = "exited", !.exit = "exception"]
         ELSE IF ~made
           THEN [chromium EXCEPT !.pc = "exited", !.exit = "exception", !.temp = FALSE]
         ELSE [chromium EXCEPT !.pc = "lookup", !.temp = TRUE, !.prepared = TRUE]
  /\ CrFrame

\* lines 371-376
CrLookup ==
  /\ chromium.pc = "lookup"
  /\ \E rm_ok \in BOOLEAN,
        got \in {get_latest_available_version_and_download_url(
                   chromium.listed, chromium.link, chromium.legacy)} :
       chromium' =
         LET c == [chromium EXCEPT !.latest_version_online = got[1],
                                   !.download_url = got[2]]
         IN IF ~got[1].some \/ ~got[2].some THEN CrLeave(c, "1", rm_ok)
            ELSE [c EXCEPT !.pc = "compare"]
  /\ CrFrame

\* lines 255-262: the text of the version file, None when there is no file
\* or it cannot be read
read_local_version(version_file, readable) ==
  IF version_file.some /\ readable THEN version_file ELSE None

\* lines 378-404; an empty text counts as no version (line 381)
CrCompare ==
  /\ chromium.pc = "compare"
  /\ \E rm_ok \in BOOLEAN, readable \in BOOLEAN,
        up \in {UpToDate(chromium.latest_version_online.ver,
                         chromium.version_file.ver, chromium.legacy)} :
       chromium' =
         LET current == read_local_version(chromium.version_file, readable)
             c == [chromium EXCEPT !.current_local_version = current,
                                   !.compared = TRUE]
         IN IF current.some /\ up THEN CrLeave(c, "0", rm_ok)
            ELSE [c EXCEPT !.pc = "update"]
  /\ CrFrame

\* lines 272-354.  outcome: where the function stops ("request": the
\* download fails, "badzip": the archive cannot be read, "rmtree": the old
\* app directory cannot be deleted completely, "move": an item cannot be
\* moved, "ok": line 337 is reached); vf_kept: a failed rmtree had not yet
\* deleted the version file; unlinked: the unlink of line 352 does not raise.
\* The version file is in app and goes with it at line 327.
download_and_extract(c, outcome, vf_kept, unlinked) ==
  [c EXCEPT !.outcome = outcome,
            !.app = IF outcome \in {"request", "badzip"} THEN @
                    ELSE IF outcome = "ok" THEN "new"
                    ELSE "part",
            !.version_file = IF outcome \in {"request", "badzip"} THEN @
                             ELSE IF outcome = "rmtree" /\ vf_kept THEN @
                             ELSE None,
            !.returned = IF outcome # "request" /\ ~unlinked THEN "raised"
                         ELSE IF outcome = "ok" THEN "True" ELSE "False"]

\* lines 264-270: an IOError is caught and reported as a warning
write_local_version(version_file, version, writable) ==
  IF writable THEN Some(version) ELSE version_file

\* lines 406-425: the prompt of line 413 when chrome.exe is there (Ctrl+C
\* leaves main by KeyboardInterrupt), download_and_extract, and the version
\* file after it returned True
CrUpdate ==
  /\ chromium.pc = "update"
  /\ \E outcome \in {"interrupt", "request", "badzip", "rmtree", "move", "ok"},
        vf_kept \in BOOLEAN, unlinked \in BOOLEAN, writable \in BOOLEAN,
        rm_ok \in BOOLEAN :
       /\ outcome = "interrupt" => chromium.app # "absent"
       /\ outcome = "rmtree" => chromium.app # "absent"
       /\ chromium' =
            IF outcome = "interrupt" THEN CrLeave(chromium, "exception", rm_ok)
            ELSE LET d == download_and_extract(chromium, outcome, vf_kept, unlinked)
                 IN IF d.returned = "raised" THEN CrLeave(d, "exception", rm_ok)
                    ELSE IF d.returned = "True"
                      THEN CrLeave([d EXCEPT !.written = writable,
                                             !.version_file =
                                                write_local_version(@, d.latest_version_online.ver,
                                                                    writable)],
                                   "return", rm_ok)
                    ELSE CrLeave(d, "1", rm_ok)
  /\ CrFrame

CrNext == CrPrepare \/ CrLookup \/ CrCompare \/ CrUpdate

CrSpec == CrInit /\ [][CrNext]_vars

\* ------------------------------------------------------------------ C37
\* the order of versions: release numbers, then revision numbers, compared
\* as numbers
VersionLeq(a, b) ==
  TupleLeq(Numbers(Split(a, "-")[1]) \o Numbers(Split(a, "-")[2]),
           Numbers(Split(b, "-")[1]) \o Numbers(Split(b, "-")[2]))

\* main has been left with the recorded version known to it and the latest
\* online version not newer than the recorded one
CrNotNewer ==
  /\ chromium.pc = "exited"
  /\ chromium.version_file0.some
  /\ chromium.latest_version_online.some
  /\ VersionLeq(chromium.latest_version_online.ver, chromium.version_file0.ver)

\* C37 (as claimed): when a version is recorded and the latest online
\* version is less than or equal to it, main exits 0 with the app directory
\* and the version file as they were; the version file is written only after
\* download_and_extract returned True; and when main has been left, by
\* whichever path, the directory updater_temp is not there.
C37_UpToDateWriteAndTemp ==
  /\ CrNotNewer => /\ chromium.exit = "0"
                   /\ chromium.app = chromium.app0
                   /\ chromium.version_file = chromium.version_file0
  /\ chromium.written => chromium.returned = "True"
  /\ chromium.pc = "exited" => ~chromium.temp

\* what holds of it: when the script itself found the installation up to
\* date (lines 381-401) it exits 0 with the app directory and the version
\* file untouched; the version file changes only by the write after
\* download_and_extract returned True; and once the try statement has been
\* entered updater_temp is left behind only when its removal failed.
C37_AsCompared ==
  /\ (/\ chromium.pc = "exited" /\ chromium.compared
      /\ chromium.current_local_version.some
      /\ UpToDate(chromium.latest_version_online.ver,
                  chromium.current_local_version.ver, chromium.legacy))
       => /\ chromium.exit = "0"
          /\ chromium.app = chromium.app0
          /\ chromium.version_file = chromium.version_file0
  /\ chromium.written
       => /\ chromium.returned = "True"
          /\ chromium.version_file = Some(chromium.latest_version_online.ver)
  /\ (chromium.pc = "exited" /\ chromium.prepared)
       => (chromium.temp <=> ~chromium.rm_ok)

\* ================================================================
\* repomix.py
\* ================================================================
\* the repository root (resolved), the directory of the script when it is
\* kept outside the repository
RmRoot == <<"r">>
RmToolsDir == <<"t">>

\* a repository: .git, .gitignore, a source directory, a build directory and
\* the output file, which run() has opened for writing before the walk
\* starts (line 173); script_in: repomix.py lies in the repository root
RmPlain(script_in) ==
  (RmRoot :> DirNode)
  @@ (RmRoot \o <<".git">> :> DirNode)
  @@ (RmRoot \o <<".git", "HEAD">> :> FileNode(1, 1))
  @@ (RmRoot \o <<".gitignore">> :> FileNode(1, 2))
  @@ (RmRoot \o <<"src">> :> DirNode)
  @@ (RmRoot \o <<"src", "m">> :> FileNode(1, 3))
  @@ (RmRoot \o <<"build">> :> DirNode)
  @@ (RmRoot \o <<"build", "o">> :> FileNode(1, 4))
  @@ (RmRoot \o <<"out">> :> FileNode(0, 0))
  @@ (RmToolsDir :> DirNode)
  @@ ((IF script_in THEN RmRoot ELSE RmToolsDir) \o <<"repomix.py">> :> FileNode(1, 5))

\* symbolic links a repository can hold: to the build directory, to the
\* directory the link is in, to the directory of the script, to a file
RmLinks ==
  [none |-> EmptyTree,
   latest |-> (RmRoot \o <<"latest">> :> LinkNode(RelTarget(<<"build">>))),
   loop |-> (RmRoot \o <<"src", "loop">> :> LinkNode(RelTarget(<<".">>))),
   tools |-> (RmRoot \o <<"tools">> :> LinkNode(AbsTarget(RmToolsDir))),
   k |-> (RmRoot \o <<"k">> :> LinkNode(RelTarget(<<"src", "m">>)))]

\* lines 244-246 of main: the output path is joined to the root as it was
\* given, "out" or "src/../out"; pathlib keeps the ".."
RmOutputs == {RmRoot \o <<"out">>, RmRoot \o <<"src", "..", "out">>}

\* lines 70-90: the matcher of the .gitignore rules; rules is the set of
\* names the rules name, a path is matched when one of its names below the
\* root is among them
ignore_matcher(rules, p) ==
  \E i \in (Len(RmRoot) + 1)..Len(p) : p[i] \in rules

\* lines 146-147: str(relative_to(root)) starts with ".git/"
StartsWithGit(p) ==
  Len(p) > Len(RmRoot) + 1 /\ p[Len(RmRoot) + 1] = ".git"

\* lines 142-151: the exclusion checks on an entry
Excluded(r, item_path) ==
  \/ item_path = r.output_file \/ item_path = r.script_file
  \/ StartsWithGit(item_path)
  \/ ignore_matcher(r.rules, item_path)

\* fs: the filesystem; unreadable: directories whose iterdir raises;
\* dirs_to_visit, current_dir: the variables of _walk_repo; items: the
\* entries of current_dir the for loop has still to take; yielded: the bag
\* of the paths yielded so far
RmInit ==
  /\ MklinkParked
  /\ vscode = VsParked
  /\ robotask = RtParked
  /\ chromium = CrParked
  /\ \E script_in \in BOOLEAN, link \in DOMAIN RmLinks, output_file \in RmOutputs,
        rules \in {{}, {"build"}}, locked \in SUBSET {RmRoot \o <<"src">>} :
       repomix = [pc |-> "loop", fs |-> RmPlain(script_in) @@ RmLinks[link],
                  unreadable |-> locked, rules |-> rules,
                  output_file |-> output_file,
                  script_file |-> (IF script_in THEN RmRoot ELSE RmToolsDir)
                                     \o <<"repomix.py">>,
                  dirs_to_visit |-> <<RmRoot>>, current_dir |-> <<>>,
                  items |-> {}, yielded |-> EmptyBag]

RmFrame == UNCHANGED <<mklink, vscode, robotask, chromium>>

\* lines 137-140 and 159-160: the next directory is popped from the end of
\* the list and opened; an OSError of iterdir is logged and the loop goes on
RmVisit ==
  /\ repomix.pc = "loop" /\ repomix.dirs_to_visit # <<>>
  /\ \E d \in {repomix.dirs_to_visit[Len(repomix.dirs_to_visit)]} :
       \E names \in {IF d \in repomix.unreadable THEN {} ELSE ListDir(repomix.fs, d)} :
         repomix' = [repomix EXCEPT
                       !.dirs_to_visit = SubSeq(@, 1, Len(@) - 1),
                       !.current_dir = d,
                       !.items = {Append(d, n) : n \in names},
                       !.pc = IF names = {} THEN "loop" ELSE "items"]
  /\ RmFrame

\* lines 140-157: one entry of the directory, in the order iterdir gives
RmItem ==
  /\ repomix.pc = "items"
  /\ \E item_path \in repomix.items :
       \E kind \in {IF Excluded(repomix, item_path) THEN "skip"
                    ELSE IF isdir(repomix.fs, item_path) THEN "dir"
                    ELSE IF isfile(repomix.fs, item_path) THEN "file"
                    ELSE "other"} :
         repomix' = [repomix EXCEPT
                       !.items = @ \ {item_path},
                       !.pc = IF repomix.items = {item_path} THEN "loop" ELSE "items",
                       !.dirs_to_visit = IF kind = "dir" THEN Append(@, item_path) ELSE @,
                       !.yielded = IF kind = "file" THEN @ (+) SetToBag({item_path}) ELSE @]
  /\ RmFrame

\* line 137: the list is empty, the generator is exhausted
RmReturn ==
  /\ repomix.pc = "loop" /\ repomix.dirs_to_visit = <<>>
  /\ repomix' = [repomix EXCEPT !.pc = "done"]
  /\ RmFrame

RmNext == RmVisit \/ RmItem \/ RmReturn

RmSpec == RmInit /\ [][RmNext]_vars

\* the consumer of the generator (the for loop of run, line 178) asks for
\* the next file until the generator is exhausted
RmFairSpec == RmSpec /\ WF_vars(RmNext)

\* ------------------------------------------------------------------ C38
RmDone == repomix.pc = "done"

\* the file or directory a path of the repository leads to
RealPath(r, p) == Stat(r.fs, p).path

\* the regular files of the repository that no rule excludes: not the output
\* file, not the script, not in .git, not matched by the .gitignore rules
\* (which covers everything below a matched directory), and in a directory
\* that can be listed
EligibleFiles(r) ==
  {q \in DOMAIN r.fs :
     /\ Under(RmRoot, q) /\ r.fs[q].kind = "file"
     /\ q # RealPath(r, r.output_file) /\ q # r.script_file
     /\ ~StartsWithGit(q) /\ ~ignore_matcher(r.rules, q)
     /\ \A d \in r.unreadable : ~Under(d, q)}

\* how often a file has been yielded, under whichever path
TimesYielded(r, q) ==
  BagCardinality([p \in {x \in BagToSet(r.yielded) : RealPath(r, x) = q} |-> r.yielded[p]])

\* the directories of the repository matched by the .gitignore rules
ExcludedDirs(r) ==
  {d \in DOMAIN r.fs : Under(RmRoot, d) /\ r.fs[d].kind = "dir" /\ ignore_matcher(r.rules, d)}

\* no yielded path is, or leads to, something the claim rules out
NeverYields(r) ==
  \A p \in BagToSet(r.yielded) :
     /\ RealPath(r, p) # RealPath(r, r.output_file)
     /\ RealPath(r, p) # r.script_file
     /\ ~StartsWithGit(p)
     /\ ~ignore_matcher(r.rules, p)
     /\ \A d \in ExcludedDirs(r) : ~Under(d, RealPath(r, p))

\* C38 (as claimed): the walk comes to an end; at its end every eligible
\* regular file has been yielded exactly once; and at no time has it yielded
\* the output file, the script file, a path that starts with .git/, a path
\* matched by the .gitignore rules, or a file below an excluded directory.
C38_WalkYieldsOnce ==
  /\ <>RmDone
  /\ [](RmDone => \A q \in EligibleFiles(repomix) : TimesYielded(repomix, q) = 1)
  /\ []NeverYields(repomix)

\* the paths the checks of lines 142-157 admit, followed from a directory
\* through at most depth levels
RmDepth == SymlinkFuel + 3
RECURSIVE PathsBelow(_, _, _)
PathsBelow(r, dir, depth) ==
  IF depth = 0 \/ dir \in r.unreadable THEN {}
  ELSE LET open == {i \in {Append(dir, n) : n \in ListDir(r.fs, dir)} : ~Excluded(r, i)}
           dirs == {i \in open : isdir(r.fs, i)}
       IN {i \in open \ dirs : isfile(r.fs, i)}
          \cup UNION {PathsBelow(r, i, depth - 1) : i \in dirs}

\* what holds of it: the walk comes to an end and has then yielded exactly
\* the admitted paths, each once; a path is compared as it is written, and a
\* link to a directory is entered like a directory.
C38_PathsOnce ==
  /\ <>RmDone
  /\ [](RmDone => repomix.yielded = SetToBag(PathsBelow(repomix, RmRoot, RmDepth)))

\* ------------------------------------------------------------------ C39
\* the script has called delete_registry_key_recursive
RtCalled == robotask.call.item # <<>>

\* C39: in every call of delete_registry_key_recursive, a key is deleted
\* only after all the subkeys it had, and nothing else leaves the registry;
\* the call returns True only if the key and all keys below it are gone; it
\* returns False when the key is missing, when it or a key below it cannot
\* be opened, and when the enumeration of it or of a key below it fails; and
\* every handle the call opened has been closed when it returns.  (No
\* exception leaves the function: all that winreg raises is caught at lines
\* 46-54, so the result of a call is always one of the two returns.)
C39_SubkeysFirst ==
  LET c == robotask.call
      d == c.returned
      below == {q \in c.reg : IsPrefix(c.item, q)}
  IN RtCalled
     => /\ \A j \in 1..Len(d.deleted) : \A q \in c.reg :
             Under(d.deleted[j], q) => \E i \in 1..(j - 1) : d.deleted[i] = q
        /\ d.reg = c.reg \ {d.deleted[i] : i \in 1..Len(d.deleted)}
        /\ d.ok \in BOOLEAN
        /\ d.ok => (below # {} /\ below \cap d.reg = {})
        /\ (c.item \notin c.reg \/ below \cap (c.denied \cup c.failing) # {}) => ~d.ok
        /\ d.opened = d.closed

\* a call on a key with subkeys of which one cannot be enumerated: the other
\* subkeys are deleted, the key stays and the call returns False
C39_Witness ==
  /\ RtCalled
  /\ robotask.call.failing # {} /\ robotask.call.denied = {}
  /\ ~robotask.call.returned.ok
  /\ robotask.call.returned.deleted # <<>>
  /\ robotask.call.returned.opened >= 3

\* a call that deletes a key with its subkeys and the subkeys of those
C39_WitnessDeleted ==
  /\ RtCalled /\ robotask.call.returned.ok
  /\ Len(robotask.call.returned.deleted) >= 4

====
